---- MODULE Spec2Model ----
(***************************************************************************)
(* Model of the Kaggle Submission Assistant repository.                    *)
(*                                                                         *)
(*  - SpecEngine : the Titanic survival matrix engine, the Python script   *)
(*                 run_titanic_survival_matrix_engine (src/constants.ts).  *)
(*  - Spec       : the browser application: the linked-account flag kept   *)
(*                 in localStorage, KaggleAuthSection, SubmissionForm and  *)
(*                 the submission services (src/services/kaggleService.ts, *)
(*                 src/App.tsx, src/unnamed/part_002, src/unnamed/part_004)*)
(*  - SpecBackend: the Flask scorer (backend/app.py), whose code is not    *)
(*                 part of the sources; modelled from its README and the   *)
(*                 specification.                                          *)
(*  - SpecForge  : the Data Forge (src/components/DataForge.tsx) calling   *)
(*                 the dataForgeService that talks to the backend          *)
(*                 (src/types.ts).                                         *)
(*  - SpecForgeMock : the Data Forge with the simulated dataForgeService   *)
(*                 (src/types.ts), whose promises always resolve.          *)
(*  - SpecMount  : the mount of App effect by effect over the lists an     *)
(*                 earlier session stored (src/App.tsx).                   *)
(*  - SpecService: submitKagglePrediction called on its own                *)
(*                 (src/services/kaggleService.ts).                        *)
(*  - SpecTrainer: ModelTrainer with the part of App it is given           *)
(*                 (src/unnamed/part_000, src/App.tsx).                    *)
(*  - SpecConcept: ModelConceptualizer with getGeminiModelSuggestion and   *)
(*                 the oracle prompt of App                                *)
(*                 (src/components/ModelConceptualizer.tsx).               *)
(*                                                                         *)
(* Floating point numbers are fixed point integers: a factor f is the      *)
(* integer round(f * Scale), a product of two factors has scale            *)
(* Scale * Scale.  Ages are counted in half years.                         *)
(***************************************************************************)
EXTENDS Integers, Sequences, FiniteSets, TLC

VARIABLES
    \* ---- survival matrix engine (one CLI process) ----
    enginePc,       \* "idle" | "done" | "aborted" | "crashed"
    inputData,      \* args.input_data: "none" | "missing" | "csv"
    csv,            \* row N of the CSV file as given: a cell per column
    dfLen,          \* len(df)
    row,            \* one row N of df: Age, Sex, Pclass, Fare, Survived
    out             \* the columns the engine computes for row N

engineVars == <<enginePc, inputData, csv, dfLen, row, out>>

VARIABLES
    \* ---- browser application (one tab) ----
    localStorage,             \* window.localStorage: key -> item
    competitionsLoaded,       \* App: fetchKaggleCompetitions has resolved
    selectedCompetitionId,    \* App
    trainedModels,            \* App
    submissionHistory,        \* App
    isKaggleAccountLinked,    \* App
    isLinked,                 \* KaggleAuthSection
    authPc,                   \* KaggleAuthSection: "idle" | "linking" | "unlinking"
    submissionMethod,         \* SubmissionForm
    submissionFile,           \* SubmissionForm
    submissionMessage,        \* SubmissionForm
    selectedTrainedModelId,   \* SubmissionForm
    isLoading,                \* SubmissionForm
    submissionResult,         \* SubmissionForm: <<>> (null) or <<response>>
    pending,                  \* the service call awaiting its timer: <<>> or <<call>>
    backendKaggleConfigured   \* /health of the backend: kaggleConfigured

storageVars == <<localStorage>>
appVars == <<competitionsLoaded, selectedCompetitionId, trainedModels,
             submissionHistory, isKaggleAccountLinked>>
authVars == <<isLinked, authPc>>
formVars == <<submissionMethod, submissionFile, submissionMessage,
              selectedTrainedModelId, isLoading, submissionResult>>
callVars == <<pending>>
uiVars == <<storageVars, appVars, authVars, formVars, callVars>>
frontendVars == <<uiVars, backendKaggleConfigured>>

VARIABLES
    \* ---- Flask scorer (one server process) ----
    backendPc,              \* "down" | "serving"
    assetFiles,             \* the three asset files on disk
    assets,                 \* the assets held in memory
    scalerAsset,            \* loaded scaler parameters
    classifierAsset,        \* loaded classifier coefficients
    survival_model_ready,   \* readiness flag
    inFlight,               \* the scoring requests being served
    httpResponse            \* the last response sent

backendVars == <<backendPc, assetFiles, assets, scalerAsset, classifierAsset,
                 survival_model_ready, inFlight, httpResponse>>

VARIABLES
    \* ---- DataForge component (one mounted instance) ----
    inputFiles,          \* DataForge: names of the files fed to the forge
    processingRules,     \* DataForge
    outputFormat,        \* DataForge: a ForgeOutputFormat
    outputDatasetName,   \* DataForge
    currentJob,          \* DataForge: NoJob (null) or a ForgeJob
    forgeError,          \* DataForge: NoForgeError (null) or a message
    forgeRuns,           \* the handleStartForge calls made so far, in order
    downloadsPending     \* handleDownloadOutput calls awaiting the service

forgeInputVars ==
    <<inputFiles, processingRules, outputFormat, outputDatasetName>>
forgeVars == <<forgeInputVars, currentJob, forgeError, forgeRuns,
               downloadsPending>>

VARIABLES
    \* ---- the mount of App, effect by effect ----
    effectQueue,      \* the effects React has still to run in this commit
    modelUpdates,     \* setTrainedModels calls not yet rendered
    historyUpdates,   \* setSubmissionHistory calls not yet rendered
    strictMode,       \* App is rendered inside <React.StrictMode>
    remounted,        \* StrictMode has run the mount effects a second time
    storageAtLoad     \* localStorage as it was when the page was loaded

mountVars == <<effectQueue, modelUpdates, historyUpdates, strictMode,
               remounted, storageAtLoad>>

VARIABLES
    \* ---- ModelTrainer ----
    trainerCompetitionId,   \* '' (NoId) or a competition id
    modelName,
    modelCode,
    isTraining,
    trainingError,          \* <<>> (null) or the parts of the message
    trainingSuccess,        \* <<>> (null) or the name of the trained model
    saveError,              \* <<>> (null) or the message
    saveSuccess,            \* <<>> (null) or the name of the saved model
    trainPending,           \* <<>> or what the awaiting handleTrainModel holds
    prefillSuggestion,      \* App: prefillTrainingSuggestion is not null
    syncPending,            \* the effects of ModelTrainer have still to run
    userPick                \* the competition the user last picked in the
                            \* trainer's selector; NoId if none

trainerInputs == <<trainerCompetitionId, modelName, modelCode>>
saveVars == <<saveError, saveSuccess>>
trainerVars == <<trainerInputs, isTraining, trainingError, trainingSuccess,
                 saveVars, trainPending, prefillSuggestion, syncPending,
                 userPick>>

VARIABLES
    \* ---- ModelConceptualizer ----
    oracleConceptualizerPrompt,  \* App: NoPrompt (null) or a prompt
    userPrompt,
    suggestion,                  \* <<>> (null) or a GeminiModelSuggestion
    conceptIsLoading,            \* ModelConceptualizer: isLoading
    conceptError,                \* ModelConceptualizer: error, "" is null
    isOraclePromptActive,        \* the ref isOraclePromptActive.current
    generatePending,             \* <<>> or the prompt the awaiting
                                 \* handleGenerateSuggestion holds
    oracleEffectPending,         \* the oracle prompt effect has still to run
    userTyped                    \* <<>> or the text the user typed since the
                                 \* last suggested prompt

conceptVars == <<oracleConceptualizerPrompt, userPrompt, suggestion,
                 conceptIsLoading, conceptError, isOraclePromptActive,
                 generatePending, oracleEffectPending, userTyped>>

\* the components modelled by specifications of their own
restVars == <<mountVars, trainerVars, conceptVars>>

vars == <<engineVars, frontendVars, backendVars, forgeVars, restVars>>

----------------------------------------------------------------------------
(* Fixed point representation *)

Scale == 10 * 1000
Scale2 == Scale * Scale

\* a NaN cell (an empty Age cell of the CSV); it propagates through arithmetic
NaN == 0 - (2 * Scale2)

\* bounds of the inputs
MaxAgeH == 160
MaxPclass == 5
MaxRows == 5

\* program constants of run_titanic_survival_matrix_engine
MinSamples == 5
ChildAge == 10
AgeMidpoint == 30
AgeSlope == 10

\* round(Scale * exp(-q)), q = 0, 1, 2, ...
ExpInt == <<10000, 3679, 1353, 498, 183, 67, 25, 9, 3, 1>>
\* round(Scale * exp(-j/20)), j = 0 .. 19
ExpFrac == <<10000, 9512, 9048, 8607, 8187, 7788, 7408, 7047, 6703, 6376,
             6065, 5769, 5488, 5220, 4966, 4724, 4493, 4274, 4066, 3867>>

\* number of age steps per year: ages are counted in half years
AgeUnit == Len(ExpFrac) \div AgeSlope

RoundDiv(a, b) == (2 * a + b) \div (2 * b)

\* np.exp(-n / (AgeSlope * AgeUnit)) for n >= 0
ExpNeg(n) ==
    LET q == n \div Len(ExpFrac)
        j == n % Len(ExpFrac)
    IN  IF q + 1 > Len(ExpInt) THEN 0
        ELSE RoundDiv(ExpInt[q + 1] * ExpFrac[j + 1], Scale)

\* 1 / (1 + np.exp((age - 30) / 10)), age in half years
Sigmoid(age) ==
    LET d == age - AgeMidpoint * AgeUnit
    IN  IF d >= 0
        THEN RoundDiv(Scale * ExpNeg(d), Scale + ExpNeg(d))
        ELSE RoundDiv(Scale2, Scale + ExpNeg(0 - d))

ChildFactor == 8 * (Scale \div 10)

\* Age_Factor with the child branch taken up to and including the threshold
Age_Factor_Inclusive(age) ==
    IF age = NaN THEN NaN
    ELSE IF age <= ChildAge * AgeUnit THEN ChildFactor
    ELSE Sigmoid(age)

\* df['Age_Factor'] = 1/(1+exp((Age-30)/10)); df.loc[Age < 10, 'Age_Factor'] = 0.8
Age_Factor(age) ==
    IF age = NaN THEN NaN
    ELSE IF age < ChildAge * AgeUnit THEN ChildFactor
    ELSE Sigmoid(age)

Tenth(k) == k * (Scale \div 10)
BaseFactor == Tenth(5)

\* one df.loc[(Sex == s) & (Pclass == c), 'Gender_Class_Factor'] = v statement
LocAssign(cur, sex, pclass, s, c, v) ==
    IF sex = s /\ pclass = c THEN v ELSE cur

\* Gender_Class_Factor with the last assignment repeating Pclass == 2
Gender_Class_Factor_Repeat(sex, pclass) ==
    LET f0 == BaseFactor
        f1 == LocAssign(f0, sex, pclass, "female", 1, Tenth(12))
        f2 == LocAssign(f1, sex, pclass, "female", 2, Tenth(10))
        f3 == LocAssign(f2, sex, pclass, "female", 3, Tenth(8))
        f4 == LocAssign(f3, sex, pclass, "male", 1, Tenth(6))
        f5 == LocAssign(f4, sex, pclass, "male", 2, Tenth(4))
        f6 == LocAssign(f5, sex, pclass, "male", 2, Tenth(2))
    IN  f6

\* the base factor followed by the six df.loc assignments, in program order
Gender_Class_Factor(sex, pclass) ==
    LET f0 == BaseFactor
        f1 == LocAssign(f0, sex, pclass, "female", 1, Tenth(12))
        f2 == LocAssign(f1, sex, pclass, "female", 2, Tenth(10))
        f3 == LocAssign(f2, sex, pclass, "female", 3, Tenth(8))
        f4 == LocAssign(f3, sex, pclass, "male", 1, Tenth(6))
        f5 == LocAssign(f4, sex, pclass, "male", 2, Tenth(4))
        f6 == LocAssign(f5, sex, pclass, "male", 3, Tenth(2))
    IN  f6

\* clip with the lower bound only
Clip01_LowerOnly(x) ==
    IF x = NaN THEN NaN
    ELSE IF x < 0 THEN 0
    ELSE x

\* Series.clip(0, 1) on a value of scale Scale2; NaN stays NaN
Clip01(x) ==
    IF x = NaN THEN NaN
    ELSE IF x < 0 THEN 0
    ELSE IF x > Scale2 THEN Scale2
    ELSE x

\* the two factors added instead of multiplied
Product_Sum(a, m) == IF a = NaN \/ m = NaN THEN NaN ELSE (a + m) * Scale

\* df['Age_Factor'] * df['Gender_Class_Factor']
Product(a, m) == IF a = NaN \/ m = NaN THEN NaN ELSE a * m

\* Conceptual_Survival_Prob = (Age_Factor * Gender_Class_Factor).clip(0, 1)
Conceptual_Survival_Prob(a, m) == Clip01(Product(a, m))

\* the label with the threshold included
Prediction_Inclusive(p) == IF p # NaN /\ 2 * p >= Scale2 THEN 1 ELSE 0

\* (df['Conceptual_Survival_Prob'] > 0.5).astype(int); NaN > 0.5 is False
Prediction(p) == IF p # NaN /\ 2 * p > Scale2 THEN 1 ELSE 0

\* df['Survived'] - df['Conceptual_Survival_Prob']
Residual(survived, p) == IF p = NaN THEN NaN ELSE survived * Scale2 - p

\* np.abs
Abs(x) == IF x = NaN THEN NaN ELSE IF x < 0 THEN 0 - x ELSE x

Sexes == {"male", "female", "Female"}
Ages == (0 .. MaxAgeH) \cup {NaN}
Pclasses == 0 .. MaxPclass

\* a column the file or the frame does not have
Absent == 0 - 1
NoSex == ""
ColumnNames == {"Age", "Sex", "Pclass", "Fare", "Survived"}

\* 'c' in df.columns, for the row r of the frame
HasColumn(r, c) == IF c = "Sex" THEN r[c] # NoSex ELSE r[c] # Absent

\* the Fare of row N in the files that have the column, in whole units
GivenFares == {7}

\* the cells of row N in the files that have the columns the engine computes
\* with, with or without the observed outcome
FullCells ==
    [Age : Ages, Sex : Sexes, Pclass : Pclasses, Fare : GivenFares,
     Survived : {0, 1, Absent}]

\* the cells of row N in the files that lack columns
PartialCells ==
    [Age : {(ChildAge - 1) * AgeUnit, AgeMidpoint * AgeUnit, Absent},
     Sex : {"male", "female", NoSex}, Pclass : {1, 3, Absent},
     Fare : GivenFares \cup {Absent}, Survived : {0, 1, Absent}]

\* the cells a CSV file may hold in row N, column by column: a file of
\* FullCells, a file that lacks one column, or a file that has the Fare only
CsvCells ==
    FullCells \cup
    {f \in PartialCells :
        \/ Cardinality({c \in ColumnNames : ~HasColumn(f, c)}) = 1
        \/ \A c \in ColumnNames : HasColumn(f, c) <=> c = "Fare"}

\* np.random.randint(low, high), np.random.choice(seq) and
\* np.random.rand() * 100 (in whole units) of a generator nothing seeds:
\* the values a draw may give
randint(low, high) == low .. (high - 1)
choice(seq) == {seq[i] : i \in DOMAIN seq}
FareUnits == 100
rand100 == 0 .. (FareUnits - 1)

\* the frame rows after the columns the file lacks were created, each cell
\* of a created column by a draw of its own
FillColumns(file) ==
    [Age : IF HasColumn(file, "Age") THEN {file.Age}
           ELSE {y * AgeUnit : y \in randint(1, 80)},
     Sex : IF HasColumn(file, "Sex") THEN {file.Sex}
           ELSE choice(<<"male", "female">>),
     Pclass : IF HasColumn(file, "Pclass") THEN {file.Pclass}
              ELSE randint(1, 4),
     Fare : IF HasColumn(file, "Fare") THEN {file.Fare} ELSE rand100,
     Survived : IF HasColumn(file, "Survived") THEN {file.Survived}
                ELSE randint(0, 2)]

NoRow == [Age |-> 0, Sex |-> "", Pclass |-> 0, Fare |-> 0, Survived |-> 0]
NoOut == [Age_Factor |-> 0, Gender_Class_Factor |-> 0,
          Conceptual_Survival_Prob |-> 0, compared |-> FALSE,
          Prediction |-> 0, Residual |-> 0, Abs_Residual |-> 0,
          scored |-> FALSE]
NoCsv == NoRow

\* the columns the engine adds to row r of the frame
Score(r) ==
    LET a == Age_Factor(r.Age)
        m == Gender_Class_Factor(r.Sex, r.Pclass)
        p == Conceptual_Survival_Prob(a, m)
        scored == [NoOut EXCEPT
                     !.Age_Factor = a, !.Gender_Class_Factor = m,
                     !.Conceptual_Survival_Prob = p, !.scored = TRUE]
    IN  IF HasColumn(r, "Survived")
        THEN [scored EXCEPT
                 !.compared = TRUE,
                 !.Prediction = Prediction(p),
                 !.Residual = Residual(r.Survived, p),
                 !.Abs_Residual = Abs(Residual(r.Survived, p))]
        ELSE scored

\* the record of a finished run: the frame row and what was computed for it
Run(r, n, o) == [row |-> r, dfLen |-> n, out |-> o]

EngineInit ==
    /\ enginePc = "idle"
    /\ inputData = "none"
    /\ csv = NoCsv
    /\ dfLen = 0
    /\ row = NoRow
    /\ out = NoOut

\* run_titanic_survival_matrix_engine(args) without a readable CSV: the
\* script calls create_simulated_titanic_data, which it never defines
RunWithoutCsv ==
    /\ enginePc = "idle"
    /\ \E d \in {"none", "missing"} : inputData' = d
    /\ enginePc' = "crashed"
    /\ UNCHANGED <<csv, dfLen, row, out, frontendVars, backendVars,
                   forgeVars, restVars>>

\* the files with fewer than 5 rows that are tried: with and without the
\* Survived column
SmallFiles ==
    {[Age |-> AgeMidpoint * AgeUnit, Sex |-> "male", Pclass |-> 3,
      Fare |-> f, Survived |-> v] : v \in {0, 1, Absent}, f \in GivenFares}

\* run_titanic_survival_matrix_engine(args) on a CSV with fewer than 5 rows
RunTooFewRows ==
    /\ enginePc = "idle"
    /\ inputData' = "csv"
    /\ \E n \in 0 .. (MinSamples - 1), file \in SmallFiles :
          /\ n <= MaxRows
          /\ dfLen' = n
          /\ csv' = file
    /\ enginePc' = "aborted"
    /\ UNCHANGED <<row, out, frontendVars, backendVars,
                   forgeVars, restVars>>

\* run_titanic_survival_matrix_engine(args) on a CSV with at least 5 rows;
\* a column the CSV lacks is filled with random values of the same domain
RunEngine ==
    /\ enginePc = "idle"
    /\ inputData' = "csv"
    /\ \E n \in MinSamples .. MaxRows, file \in CsvCells :
          /\ dfLen' = n
          /\ csv' = file
          /\ row' \in FillColumns(file)
          /\ out' = Score(row')
    /\ enginePc' = "done"
    /\ UNCHANGED <<frontendVars, backendVars,
                   forgeVars, restVars>>

\* the process exits and the same command is run again on the same file: a
\* new process, whose generator draws anew
RunEngineAgain ==
    /\ enginePc = "done"
    /\ row' \in FillColumns(csv)
    /\ out' = Score(row')
    /\ UNCHANGED <<enginePc, inputData, csv, dfLen, frontendVars,
                   backendVars, forgeVars, restVars>>

\* the process exits; the next invocation starts afresh
EngineExit ==
    /\ enginePc # "idle"
    /\ enginePc' = "idle"
    /\ inputData' = "none"
    /\ csv' = NoCsv
    /\ dfLen' = 0
    /\ row' = NoRow
    /\ out' = NoOut
    /\ UNCHANGED <<frontendVars, backendVars,
                   forgeVars, restVars>>

EngineNext ==
    \/ RunWithoutCsv
    \/ RunTooFewRows
    \/ RunEngine
    \/ RunEngineAgain
    \/ EngineExit


----------------------------------------------------------------------------
(* The Flask scorer, backend/app.py.  Its code is not among the sources;   *)
(* it is modelled from the backend README and the specification.           *)

\* bound on the scoring requests served at the same time
MaxInFlight == 2

AssetNames == {"wm", "scaler", "logistic"}
FileStates == {"ok", "absent", "corrupt"}

\* scaler and classifier parameters a training run may have written
ScalerParams == {[mean |-> Tenth(5), std |-> Tenth(2)], [mean |-> Tenth(5), std |-> 0]}
ClassifierParams == {[w |-> Tenth(10), b |-> 0], [w |-> Tenth(20), b |-> 0 - Tenth(10)]}

\* a field a record does not supply (null)
Missing == NaN

\* PassengerRecord, of which the scorer reads class, sex, age and fare
PassengerRecord(pclass, sex, age, fare) ==
    [Pclass |-> pclass, Sex |-> sex, Age |-> age, Fare |-> fare]
NoRecord == PassengerRecord(0, "", Missing, Missing)

NoResponse == [endpoint |-> "", status |-> "", message |-> "",
               ready |-> FALSE, kaggleConfigured |-> FALSE,
               record |-> NoRecord,
               A_N |-> 0, M_N |-> 0, Phi_N |-> 0, scored |-> FALSE,
               x_scaled |-> 0,
               predicted_survival_probability |-> 0, assetsUsed |-> {}]

\* the defaults the preprocessor imputes
DefaultAge == AgeMidpoint * AgeUnit
DefaultFare == Tenth(10 * 10)

\* a preprocessor that imputes the age only
preprocess_and_engineer_AgeOnly(record) ==
    [record EXCEPT !.Age = IF @ = Missing THEN DefaultAge ELSE @]

\* preprocess_and_engineer: missing numeric fields are imputed
preprocess_and_engineer(record) ==
    [record EXCEPT !.Age = IF @ = Missing THEN DefaultAge ELSE @,
                   !.Fare = IF @ = Missing THEN DefaultFare ELSE @]

\* asset loader with readiness granted as soon as one file loads
ModelReady_AnyFile(files) == \E a \in AssetNames : files[a] = "ok"

\* asset loader: ready only if all three files load
ModelReady(files) == \A a \in AssetNames : files[a] = "ok"

\* the assets kept in memory: all three, or none when the load is rejected
LoadedAssets(files) == IF ModelReady(files) THEN AssetNames ELSE {}

\* (x - mean) / std as the floats give it: a division by a zero std is not
\* a number
Scale_Feature_NoSubstitution(x, scaler) ==
    IF scaler.std = 0 THEN NaN
    ELSE RoundDiv((x - scaler.mean) * Scale, scaler.std)

\* (x - mean) / std, with std = 1 substituted for a zero std
Scale_Feature(x, scaler) ==
    LET std == IF scaler.std = 0 THEN Scale ELSE scaler.std
    IN  RoundDiv((x - scaler.mean) * Scale, std)

\* sigmoid(z) for z of scale Scale
Logistic(z) ==
    LET n == RoundDiv((IF z < 0 THEN 0 - z ELSE z) * Len(ExpFrac), Scale)
    IN  IF z >= 0
        THEN RoundDiv(Scale2, Scale + ExpNeg(n))
        ELSE RoundDiv(Scale * ExpNeg(n), Scale + ExpNeg(n))

\* probability = sigmoid(w * x_scaled + b); a scaled value that is not a
\* number gives a probability that is not a number
Classify(x, scaler, classifier) ==
    LET x_scaled == Scale_Feature(x, scaler)
    IN  IF x_scaled = NaN THEN NaN
        ELSE Logistic(RoundDiv(classifier.w * x_scaled, Scale)
                      + classifier.b)

\* ages of the records sent to /predict: a child just under the threshold
\* and an adult at the midpoint of the curve
RequestAges == {ChildAge * AgeUnit - 1, AgeMidpoint * AgeUnit}
\* the class of the records sent: third class
RequestClasses == {3}

\* the records sent to /predict with a valid class and sex; age and fare are
\* optional
RequestFares == {Missing, Tenth(72)}
PassengerRecords ==
    {PassengerRecord(c, s, a, f) :
        c \in RequestClasses, s \in {"male", "female"},
        a \in RequestAges \cup {Missing}, f \in RequestFares}

\* the answer to a scoring request for record: the feature vector must be
\* complete, the fingerprint is computed, scaled and classified
ScoreRecord(record, scaler, classifier, loaded) ==
    LET x == preprocess_and_engineer(record)
        A == Age_Factor(x.Age)
        M == Gender_Class_Factor(x.Sex, x.Pclass)
        Phi == RoundDiv(A * M, Scale)
    IN  IF x.Age = Missing \/ x.Fare = Missing
        THEN [NoResponse EXCEPT
                 !.endpoint = "/predict", !.status = "error",
                 !.message = "internal error", !.record = record]
        ELSE [NoResponse EXCEPT
                 !.endpoint = "/predict", !.status = "ok",
                 !.record = record,
                 !.A_N = A, !.M_N = M, !.Phi_N = Phi, !.scored = TRUE,
                 !.x_scaled = Scale_Feature(Phi, scaler),
                 !.predicted_survival_probability =
                     Classify(Phi, scaler, classifier),
                 !.assetsUsed = loaded]

\* a scaler that is refitted on the value it scales
ScalerAfterTransform_Refit(scaler, x) == [scaler EXCEPT !.mean = x]

\* scaler.transform leaves the scaler as it was loaded
ScalerAfterTransform(scaler, x) == scaler

\* scoring requests answered although the scorer is not ready
PredictAllowed_NoReadyCheck(ready) == TRUE

\* a scoring request is served only when the scorer is ready
PredictAllowed(ready) == ready

BackendDown ==
    /\ backendPc = "down"
    /\ assetFiles = [a \in AssetNames |-> "absent"]
    /\ assets = {}
    /\ scalerAsset = [mean |-> 0, std |-> 0]
    /\ classifierAsset = [w |-> 0, b |-> 0]
    /\ survival_model_ready = FALSE
    /\ inFlight = {}
    /\ httpResponse = NoResponse

\* process start: the three asset files are read once
StartBackend ==
    /\ backendPc = "down"
    /\ \E files \in [AssetNames -> FileStates] :
          /\ assetFiles' = files
          /\ assets' = LoadedAssets(files)
          /\ survival_model_ready' = ModelReady(files)
          /\ IF LoadedAssets(files) = AssetNames
             THEN \E s \in ScalerParams, c \in ClassifierParams :
                     scalerAsset' = s /\ classifierAsset' = c
             ELSE UNCHANGED <<scalerAsset, classifierAsset>>
    /\ \E k \in BOOLEAN : backendKaggleConfigured' = k
    /\ backendPc' = "serving"
    /\ inFlight' = {}
    /\ httpResponse' = NoResponse
    /\ UNCHANGED <<engineVars, uiVars,
                   forgeVars, restVars>>

\* GET /health
Health ==
    /\ backendPc = "serving"
    /\ httpResponse' = [NoResponse EXCEPT
          !.endpoint = "/health", !.status = "ok",
          !.ready = survival_model_ready,
          !.kaggleConfigured = backendKaggleConfigured]
    /\ UNCHANGED <<backendPc, assetFiles, assets, scalerAsset,
                   classifierAsset, survival_model_ready, inFlight,
                   backendKaggleConfigured, engineVars, uiVars,
                   forgeVars, restVars>>

\* POST /predict while the scorer is not ready
PredictNotReady ==
    /\ backendPc = "serving"
    /\ ~PredictAllowed(survival_model_ready)
    /\ httpResponse' = [NoResponse EXCEPT
          !.endpoint = "/predict", !.status = "error",
          !.message = "model not ready"]
    /\ UNCHANGED <<backendPc, assetFiles, assets, scalerAsset,
                   classifierAsset, survival_model_ready, inFlight,
                   backendKaggleConfigured, engineVars, uiVars,
                   forgeVars, restVars>>

\* POST /predict with a class outside {1, 2, 3} or an unknown sex
PredictInvalid ==
    /\ backendPc = "serving"
    /\ PredictAllowed(survival_model_ready)
    /\ \E c \in Pclasses \ (1 .. 3) :
          httpResponse' = [NoResponse EXCEPT
             !.endpoint = "/predict", !.status = "error",
             !.message = "validation error: Pclass"]
    /\ UNCHANGED <<backendPc, assetFiles, assets, scalerAsset,
                   classifierAsset, survival_model_ready, inFlight,
                   backendKaggleConfigured, engineVars, uiVars,
                   forgeVars, restVars>>

\* POST /predict with a valid record: the request is accepted
PredictReceive ==
    /\ backendPc = "serving"
    /\ PredictAllowed(survival_model_ready)
    /\ Cardinality(inFlight) < MaxInFlight
    /\ \E record \in PassengerRecords \ inFlight :
          inFlight' = inFlight \cup {record}
    /\ UNCHANGED <<backendPc, assetFiles, assets, scalerAsset,
                   classifierAsset, survival_model_ready, httpResponse,
                   backendKaggleConfigured, engineVars, uiVars,
                   forgeVars, restVars>>

\* POST /predict: one of the requests being served is scored and answered
PredictRespond ==
    /\ backendPc = "serving"
    /\ \E record \in inFlight :
          /\ httpResponse' = ScoreRecord(record, scalerAsset, classifierAsset,
                                         assets)
          /\ scalerAsset' = ScalerAfterTransform(scalerAsset,
                                                 httpResponse'.Phi_N)
          /\ inFlight' = inFlight \ {record}
    /\ UNCHANGED <<backendPc, assetFiles, assets, classifierAsset,
                   survival_model_ready,
                   backendKaggleConfigured, engineVars, uiVars,
                   forgeVars, restVars>>

\* the process is stopped; assets are replaced only between runs
StopBackend ==
    /\ backendPc = "serving"
    /\ backendPc' = "down"
    /\ inFlight' = {}
    /\ assetFiles' = [a \in AssetNames |-> "absent"]
    /\ assets' = {}
    /\ scalerAsset' = [mean |-> 0, std |-> 0]
    /\ classifierAsset' = [w |-> 0, b |-> 0]
    /\ survival_model_ready' = FALSE
    /\ httpResponse' = NoResponse
    /\ UNCHANGED <<backendKaggleConfigured, engineVars, uiVars,
                   forgeVars, restVars>>

BackendNext ==
    \/ StartBackend
    \/ Health
    \/ PredictNotReady
    \/ PredictInvalid
    \/ PredictReceive
    \/ PredictRespond
    \/ StopBackend

----------------------------------------------------------------------------
(* The browser application *)

\* bounds
MaxSubmissions == 1

KAGGLE_CREDENTIALS_LINKED_KEY == "KaggleCredentialsLinked"
LOCAL_STORAGE_MODELS_KEY == "kaggleAssistantTrainedModels"
LOCAL_STORAGE_SUBMISSIONS_KEY == "kaggleAssistantSubmissionHistory"

StorageKeys == {KAGGLE_CREDENTIALS_LINKED_KEY, LOCAL_STORAGE_MODELS_KEY,
                LOCAL_STORAGE_SUBMISSIONS_KEY}

\* a localStorage item is a text (a sequence of string tokens) or is absent
NullItem == [present |-> FALSE, text |-> <<>>]
Item(t) == [present |-> TRUE, text |-> t]

\* localStorage.getItem / setItem / removeItem
getItem(ls, k) == ls[k]
setItem(ls, k, t) == [ls EXCEPT ![k] = Item(t)]
removeItem(ls, k) == [ls EXCEPT ![k] = NullItem]

\* hasKaggleCredentialsConfigured, reading storage ls
hasKaggleCredentialsConfigured(ls) ==
    getItem(ls, KAGGLE_CREDENTIALS_LINKED_KEY) = Item(<<"true">>)

simulateSetKaggleCredentials(ls) ==
    setItem(ls, KAGGLE_CREDENTIALS_LINKED_KEY, <<"true">>)

simulateClearKaggleCredentials(ls) ==
    removeItem(ls, KAGGLE_CREDENTIALS_LINKED_KEY)

\* ids of MOCK_KAGGLE_COMPETITIONS; NoId is null
NoId == ""
CompetitionIds == <<"titanic", "digit-recognizer">>

\* the ids given to trained models, in order of creation
ModelIds == <<"model_1">>
\* TrainedModel.name of these models
TrainedModelNames == <<"My Model">>

\* JSON.stringify of the trained model list: a text
RECURSIVE StringifyModels(_)
StringifyModels(list) ==
    IF list = <<>> THEN <<>>
    ELSE <<"{", Head(list).id, Head(list).name, Head(list).competitionId,
           "}">>
         \o StringifyModels(Tail(list))

\* JSON.parse of the objects of a trained model list
RECURSIVE ParseModelObjects(_)
ParseModelObjects(t) ==
    IF Len(t) < 5 THEN <<>>
    ELSE <<[id |-> t[2], name |-> t[3], competitionId |-> t[4]]>>
         \o ParseModelObjects(SubSeq(t, 6, Len(t)))

\* a kaggleLink names the competition and the submission; Undefined is none
Undefined == [competitionId |-> "", submissionId |-> ""]
KaggleLink(competitionId, submissionId) ==
    [competitionId |-> competitionId, submissionId |-> submissionId]

\* JSON.stringify of the submission history: a text
RECURSIVE StringifySubmissions(_)
StringifySubmissions(list) ==
    IF list = <<>> THEN <<>>
    ELSE LET e == Head(list)
         IN  <<"{", e.competitionId, e.sourceName.stem, e.sourceName.ext,
               e.message, e.status, e.kaggleLink.competitionId,
               e.kaggleLink.submissionId, "}">>
             \o StringifySubmissions(Tail(list))

\* JSON.parse of the objects of a submission history
RECURSIVE ParseSubmissionObjects(_)
ParseSubmissionObjects(t) ==
    IF Len(t) < 9 THEN <<>>
    ELSE <<[competitionId |-> t[2],
            sourceName |-> [stem |-> t[3], ext |-> t[4]],
            message |-> t[5], status |-> t[6],
            kaggleLink |-> KaggleLink(t[7], t[8])]>>
         \o ParseSubmissionObjects(SubSeq(t, 10, Len(t)))

JSONArray(objects) == <<"[">> \o objects \o <<"]">>
ArrayBody(t) == SubSeq(t, 2, Len(t) - 1)

\* the trained models load effect: the stored list, or the initial [] state
LoadModels(ls) ==
    LET item == getItem(ls, LOCAL_STORAGE_MODELS_KEY)
    IN  IF item.present /\ Len(item.text) >= 2
        THEN ParseModelObjects(ArrayBody(item.text)) ELSE <<>>

\* the submission history load effect
LoadSubmissions(ls) ==
    LET item == getItem(ls, LOCAL_STORAGE_SUBMISSIONS_KEY)
    IN  IF item.present /\ Len(item.text) >= 2
        THEN ParseSubmissionObjects(ArrayBody(item.text)) ELSE <<>>

\* the two save effects of App
SaveModels(ls, models) ==
    setItem(ls, LOCAL_STORAGE_MODELS_KEY, JSONArray(StringifyModels(models)))
\* the submission history saved under the key of the linked flag
SaveSubmissions_WrongKey(ls, history) ==
    setItem(ls, KAGGLE_CREDENTIALS_LINKED_KEY,
            JSONArray(StringifySubmissions(history)))

SaveSubmissions(ls, history) ==
    setItem(ls, LOCAL_STORAGE_SUBMISSIONS_KEY,
            JSONArray(StringifySubmissions(history)))

\* files the user can pick: a name is a stem and an extension
FileName(stem, ext) == [stem |-> stem, ext |-> ext]
NoFile == [present |-> FALSE, name |-> FileName("", ""), size |-> 0]
File(stem, ext, size) ==
    [present |-> TRUE, name |-> FileName(stem, ext), size |-> size]
Files == {File("pred", ".CSV", 10), File("notes", ".txt", 10)}

\* String.prototype.toLowerCase on the parts of a name
LowerPart(p) ==
    CASE p = ".CSV" -> ".csv"
      [] p = ".Csv" -> ".csv"
      [] p = ".TXT" -> ".txt"
      [] p = "CSV" -> "csv"
      [] p = "Parquet" -> "parquet"
      [] p = "JSON" -> "json"
      [] OTHER -> p

\* a comparison of the name as it is spelled
toLowerCase_AsSpelled(name) == name

toLowerCase(name) == FileName(LowerPart(name.stem), LowerPart(name.ext))
endsWith(name, suffix) == name.ext = suffix

\* validateSubmissionFile: the error message, or NoError (null)
NoError == ""
validateSubmissionFile(file) ==
    IF ~file.present THEN "No submission file selected."
    ELSE IF ~endsWith(toLowerCase(file.name), ".csv")
         THEN "Submission file must be a .csv file."
    ELSE IF file.size = 0 THEN "Submission file cannot be empty."
    ELSE NoError

\* a SubmissionResponse; message is the template parts of the message
Response(success, message, submissionId, kaggleLink) ==
    [success |-> success, message |-> message,
     submissionId |-> submissionId, kaggleLink |-> kaggleLink]
Failure(message) == Response(FALSE, message, "", Undefined)

ServiceNotLinked ==
    Failure(<<"Kaggle account not linked. Please link your account before submitting.">>)

\* submitKagglePrediction without the credentials check
submitKagglePredictionEarly_NoCheck(ls, file) ==
    IF validateSubmissionFile(file) # NoError
    THEN <<Failure(<<"Submission file validation failed: ",
                     validateSubmissionFile(file)>>)>>
    ELSE <<>>

\* submitKagglePrediction up to its await: the response it returns at once,
\* or <<>> when it goes on to the simulated API call
submitKagglePredictionEarly(ls, file) ==
    IF ~hasKaggleCredentialsConfigured(ls) THEN <<ServiceNotLinked>>
    ELSE IF validateSubmissionFile(file) # NoError
         THEN <<Failure(<<"Submission file validation failed: ",
                          validateSubmissionFile(file)>>)>>
    ELSE <<>>

\* submitKagglePrediction after the simulated API call
submitKagglePredictionLate(competitionId, isSuccess) ==
    IF isSuccess
    THEN Response(TRUE, <<"Submission successful! Submission ID: ", "sub_now">>,
                  "sub_now", KaggleLink(competitionId, "sub_now"))
    ELSE Failure(<<"Submission failed: An unexpected error occurred on the Kaggle API. Please check your file and try again.">>)

\* generateAndSubmitPredictionWithModel up to its await
generateAndSubmitEarly(ls) ==
    IF ~hasKaggleCredentialsConfigured(ls) THEN <<ServiceNotLinked>>
    ELSE <<>>

\* generateAndSubmitPredictionWithModel after the simulated API call
generateAndSubmitLate(competitionId, isSuccess) ==
    IF isSuccess
    THEN Response(TRUE, <<"Model generated predictions and submitted successfully! Submission ID: ", "sub_model_now">>,
                  "sub_model_now", KaggleLink(competitionId, "sub_model_now"))
    ELSE Failure(<<"Submission with model failed: Error during prediction generation or Kaggle API call.">>)

\* a service call in flight (its simulated API call is running): which
\* function, and what handleSubmit captured for the history entry
Call(fn, comp, source, msg) ==
    [fn |-> fn, competitionId |-> comp, sourceName |-> source, message |-> msg]

\* String.prototype.trim
Messages == {"", "  ", "first try"}
trim(m) == IF m = "  " THEN "" ELSE m

\* SubmissionForm: selectedTrainedModel, targetCompetitionId, isFormDisabled
SelectedModels ==
    {i \in 1 .. Len(trainedModels) : trainedModels[i].id = selectedTrainedModelId}
HasSelectedTrainedModel == SelectedModels # {}
selectedTrainedModel == trainedModels[CHOOSE i \in SelectedModels : TRUE]

targetCompetitionId ==
    IF submissionMethod = "trainedModel" /\ HasSelectedTrainedModel
    THEN selectedTrainedModel.competitionId
    ELSE selectedCompetitionId

isFormDisabled ==
    isLoading \/ targetCompetitionId = NoId \/ ~isKaggleAccountLinked

\* an entry that is recorded as a success whatever the response
HistoryEntry_AlwaysSuccess(comp, source, msg, resp) ==
    [competitionId |-> comp, sourceName |-> source, message |-> msg,
     status |-> "success", kaggleLink |-> resp.kaggleLink]

\* the entry handleSubmit passes to onNewSubmission
HistoryEntry(comp, source, msg, resp) ==
    [competitionId |-> comp, sourceName |-> source, message |-> msg,
     status |-> IF resp.success THEN "success" ELSE "failed",
     kaggleLink |-> resp.kaggleLink]

\* the state of a freshly mounted App over storage ls, mount effects run
Mounted(ls) ==
    /\ localStorage = SaveSubmissions(SaveModels(ls, LoadModels(ls)),
                                      LoadSubmissions(ls))
    /\ competitionsLoaded = FALSE
    /\ selectedCompetitionId = NoId
    /\ trainedModels = LoadModels(ls)
    /\ submissionHistory = LoadSubmissions(ls)
    /\ isKaggleAccountLinked = hasKaggleCredentialsConfigured(ls)
    /\ isLinked = hasKaggleCredentialsConfigured(ls)
    /\ authPc = "idle"
    /\ submissionMethod = "file"
    /\ submissionFile = NoFile
    /\ submissionMessage = ""
    /\ selectedTrainedModelId = NoId
    /\ isLoading = FALSE
    /\ submissionResult = <<>>
    /\ pending = <<>>

EmptyStorage == [k \in StorageKeys |-> NullItem]

\* first visit, or a visit after an earlier session linked the account; the
\* backend runs without KAGGLE_USERNAME and KAGGLE_KEY, as in its README
FrontendInit ==
    /\ \E ls \in {EmptyStorage, simulateSetKaggleCredentials(EmptyStorage)} :
          Mounted(ls)
    /\ backendKaggleConfigured = FALSE

\* the browser reloads the page: component state is lost, storage is kept
Reload ==
    /\ localStorage' = SaveSubmissions(
            SaveModels(localStorage, LoadModels(localStorage)),
            LoadSubmissions(localStorage))
    /\ competitionsLoaded' = FALSE
    /\ selectedCompetitionId' = NoId
    /\ trainedModels' = LoadModels(localStorage)
    /\ submissionHistory' = LoadSubmissions(localStorage)
    /\ isKaggleAccountLinked' = hasKaggleCredentialsConfigured(localStorage)
    /\ isLinked' = hasKaggleCredentialsConfigured(localStorage)
    /\ authPc' = "idle"
    /\ submissionMethod' = "file"
    /\ submissionFile' = NoFile
    /\ submissionMessage' = ""
    /\ selectedTrainedModelId' = NoId
    /\ isLoading' = FALSE
    /\ submissionResult' = <<>>
    /\ pending' = <<>>
    /\ UNCHANGED <<backendKaggleConfigured, engineVars, backendVars,
                   forgeVars, restVars>>

\* App mount effect: fetchKaggleCompetitions resolves, the first is selected
FetchCompetitionsDone ==
    /\ ~competitionsLoaded
    /\ competitionsLoaded' = TRUE
    /\ selectedCompetitionId' = CompetitionIds[1]
    /\ UNCHANGED <<storageVars, trainedModels, submissionHistory,
                   isKaggleAccountLinked, authVars, formVars, callVars,
                   backendKaggleConfigured,
                   engineVars, backendVars,
                   forgeVars, restVars>>

\* App.handleSelectCompetition
HandleSelectCompetition ==
    /\ competitionsLoaded
    /\ \E i \in 1 .. Len(CompetitionIds) :
          selectedCompetitionId' = CompetitionIds[i]
    /\ UNCHANGED <<storageVars, competitionsLoaded, trainedModels,
                   submissionHistory, isKaggleAccountLinked, authVars,
                   formVars, callVars, backendKaggleConfigured,
                   engineVars, backendVars,
                   forgeVars, restVars>>

\* App.handleNewTrainedModel followed by the save effect
HandleNewTrainedModel ==
    /\ Len(trainedModels) < Len(ModelIds)
    /\ \E i \in 1 .. Len(CompetitionIds) :
          trainedModels' = Append(trainedModels,
              [id |-> ModelIds[Len(trainedModels) + 1],
               name |-> TrainedModelNames[Len(trainedModels) + 1],
               competitionId |-> CompetitionIds[i]])
    /\ localStorage' = SaveModels(localStorage, trainedModels')
    /\ UNCHANGED <<competitionsLoaded, selectedCompetitionId,
                   submissionHistory, isKaggleAccountLinked, authVars,
                   formVars, callVars, backendKaggleConfigured,
                   engineVars, backendVars,
                   forgeVars, restVars>>

\* the Link Kaggle Account button, then handleSimulateLink in the modal it
\* opens, up to its await
HandleSimulateLinkStart ==
    /\ ~isLinked /\ authPc = "idle"
    /\ authPc' = "linking"
    /\ UNCHANGED <<storageVars, appVars, isLinked, formVars,
                   callVars, backendKaggleConfigured,
                   engineVars, backendVars,
                   forgeVars, restVars>>

\* handleSimulateLink after its await, with App.handleKaggleAuthStatusChange
HandleSimulateLinkDone ==
    /\ authPc = "linking"
    /\ localStorage' = simulateSetKaggleCredentials(localStorage)
    /\ isLinked' = TRUE
    /\ authPc' = "idle"
    /\ isKaggleAccountLinked' = TRUE
    /\ UNCHANGED <<competitionsLoaded, selectedCompetitionId, trainedModels,
                   submissionHistory, formVars, callVars,
                   backendKaggleConfigured,
                   engineVars, backendVars,
                   forgeVars, restVars>>

\* handleSimulateUnlink up to its await
HandleSimulateUnlinkStart ==
    /\ isLinked /\ authPc = "idle"
    /\ authPc' = "unlinking"
    /\ UNCHANGED <<storageVars, appVars, isLinked, formVars,
                   callVars, backendKaggleConfigured,
                   engineVars, backendVars,
                   forgeVars, restVars>>

\* handleSimulateUnlink after its await
HandleSimulateUnlinkDone ==
    /\ authPc = "unlinking"
    /\ localStorage' = simulateClearKaggleCredentials(localStorage)
    /\ isLinked' = FALSE
    /\ authPc' = "idle"
    /\ isKaggleAccountLinked' = FALSE
    /\ UNCHANGED <<competitionsLoaded, selectedCompetitionId, trainedModels,
                   submissionHistory, formVars, callVars,
                   backendKaggleConfigured,
                   engineVars, backendVars,
                   forgeVars, restVars>>

\* another tab of the application links or unlinks the account: the storage
\* is shared, the component state of this tab is not
OtherTabSetsCredentials ==
    /\ ~hasKaggleCredentialsConfigured(localStorage)
    /\ localStorage' = simulateSetKaggleCredentials(localStorage)
    /\ UNCHANGED <<appVars, authVars, formVars, callVars,
                   backendKaggleConfigured,
                   engineVars, backendVars,
                   forgeVars, restVars>>

OtherTabClearsCredentials ==
    /\ hasKaggleCredentialsConfigured(localStorage)
    /\ localStorage' = simulateClearKaggleCredentials(localStorage)
    /\ UNCHANGED <<appVars, authVars, formVars, callVars,
                   backendKaggleConfigured,
                   engineVars, backendVars,
                   forgeVars, restVars>>

\* SubmissionForm inputs; all of them are disabled while isFormDisabled
SetSubmissionMethod ==
    /\ ~isFormDisabled
    /\ \/ submissionMethod' = "file"
       \/ Len(trainedModels) > 0 /\ submissionMethod' = "trainedModel"
    /\ submissionMethod' # submissionMethod
    /\ UNCHANGED <<storageVars, appVars, authVars, submissionFile,
                   submissionMessage, selectedTrainedModelId, isLoading,
                   submissionResult, callVars, backendKaggleConfigured,
                   engineVars, backendVars,
                   forgeVars, restVars>>

HandleFileChange ==
    /\ ~isFormDisabled /\ submissionMethod = "file"
    /\ \E f \in Files \cup {NoFile} : submissionFile' = f
    /\ UNCHANGED <<storageVars, appVars, authVars, submissionMethod,
                   submissionMessage, selectedTrainedModelId, isLoading,
                   submissionResult, callVars, backendKaggleConfigured,
                   engineVars, backendVars,
                   forgeVars, restVars>>

SetSubmissionMessage ==
    /\ ~isFormDisabled
    /\ \E m \in Messages : submissionMessage' = m
    /\ UNCHANGED <<storageVars, appVars, authVars, submissionMethod,
                   submissionFile, selectedTrainedModelId, isLoading,
                   submissionResult, callVars, backendKaggleConfigured,
                   engineVars, backendVars,
                   forgeVars, restVars>>

SetSelectedTrainedModelId ==
    /\ ~isFormDisabled /\ submissionMethod = "trainedModel"
    /\ \E i \in 1 .. Len(trainedModels) :
          selectedTrainedModelId' = trainedModels[i].id
    /\ UNCHANGED <<storageVars, appVars, authVars, submissionMethod,
                   submissionFile, submissionMessage, isLoading,
                   submissionResult, callVars, backendKaggleConfigured,
                   engineVars, backendVars,
                   forgeVars, restVars>>

\* handleSubmit, one of its early returns
HandleSubmitRejected ==
    /\ ~isLoading
    /\ \/ /\ ~isKaggleAccountLinked
          /\ submissionResult' = <<Failure(<<"Kaggle account not linked. Please link your account in the \"Kaggle Account Status\" section before submitting.">>)>>
       \/ /\ isKaggleAccountLinked /\ targetCompetitionId = NoId
          /\ submissionResult' = <<Failure(<<"Please select a competition first.">>)>>
       \/ /\ isKaggleAccountLinked /\ targetCompetitionId # NoId
          /\ trim(submissionMessage) = ""
          /\ submissionResult' = <<Failure(<<"Please enter a submission message.">>)>>
       \/ /\ isKaggleAccountLinked /\ targetCompetitionId # NoId
          /\ trim(submissionMessage) # ""
          /\ ~(submissionMethod = "file" /\ submissionFile.present)
          /\ ~(submissionMethod = "trainedModel" /\ HasSelectedTrainedModel)
          /\ submissionResult' = <<Failure(<<"Invalid submission source.">>)>>
    /\ UNCHANGED <<storageVars, appVars, authVars, submissionMethod,
                   submissionFile, submissionMessage, selectedTrainedModelId,
                   isLoading, callVars, backendKaggleConfigured,
                   engineVars, backendVars,
                   forgeVars, restVars>>

\* the checks of handleSubmit passed
SubmitReady ==
    /\ ~isLoading
    /\ isKaggleAccountLinked
    /\ targetCompetitionId # NoId
    /\ trim(submissionMessage) # ""
    /\ \/ submissionMethod = "file" /\ submissionFile.present
       \/ submissionMethod = "trainedModel" /\ HasSelectedTrainedModel
    /\ Len(submissionHistory) < MaxSubmissions

submissionSource ==
    IF submissionMethod = "file" THEN submissionFile.name
    ELSE FileName(selectedTrainedModel.name, "")

\* the early response of the service function handleSubmit calls
EarlyResponse ==
    IF submissionMethod = "file"
    THEN submitKagglePredictionEarly(localStorage, submissionFile)
    ELSE generateAndSubmitEarly(localStorage)

ServiceName ==
    IF submissionMethod = "file" THEN "submitKagglePrediction"
    ELSE "generateAndSubmitPredictionWithModel"

\* handleSubmit when the service returns without awaiting its timer: the
\* response is shown and recorded in the history in the same turn
HandleSubmitReturned ==
    /\ SubmitReady
    /\ EarlyResponse # <<>>
    /\ LET resp == EarlyResponse[1]
       IN  /\ submissionResult' = <<resp>>
           /\ submissionHistory' = Append(submissionHistory,
                 HistoryEntry(targetCompetitionId, submissionSource,
                              submissionMessage, resp))
    /\ localStorage' = SaveSubmissions(localStorage, submissionHistory')
    /\ UNCHANGED <<competitionsLoaded, selectedCompetitionId, trainedModels,
                   isKaggleAccountLinked, authVars, submissionMethod,
                   submissionFile, submissionMessage, selectedTrainedModelId,
                   isLoading, pending, backendKaggleConfigured,
                   engineVars, backendVars,
                   forgeVars, restVars>>

\* handleSubmit when the service starts the simulated API call
HandleSubmitAwaits ==
    /\ SubmitReady
    /\ EarlyResponse = <<>>
    /\ isLoading' = TRUE
    /\ submissionResult' = <<>>
    /\ pending' = <<Call(ServiceName, targetCompetitionId, submissionSource,
                      submissionMessage)>>
    /\ UNCHANGED <<storageVars, appVars, authVars, submissionMethod,
                   submissionFile, submissionMessage, selectedTrainedModelId,
                   backendKaggleConfigured,
                   engineVars, backendVars,
                   forgeVars, restVars>>

\* the timer of the simulated API call fires, Math.random decides, and
\* handleSubmit continues after its await
SubmitResolves ==
    /\ pending # <<>>
    /\ \E isSuccess \in BOOLEAN :
          LET call == pending[1]
              resp == IF call.fn = "submitKagglePrediction"
                      THEN submitKagglePredictionLate(call.competitionId, isSuccess)
                      ELSE generateAndSubmitLate(call.competitionId, isSuccess)
          IN  /\ submissionResult' = <<resp>>
              /\ submissionHistory' = Append(submissionHistory,
                    HistoryEntry(call.competitionId, call.sourceName,
                                 call.message, resp))
              /\ IF resp.success
                 THEN /\ submissionFile' = NoFile
                      /\ submissionMessage' = ""
                      /\ selectedTrainedModelId' = NoId
                 ELSE UNCHANGED <<submissionFile, submissionMessage,
                                  selectedTrainedModelId>>
    /\ localStorage' = SaveSubmissions(localStorage, submissionHistory')
    /\ isLoading' = FALSE
    /\ pending' = <<>>
    /\ UNCHANGED <<competitionsLoaded, selectedCompetitionId, trainedModels,
                   isKaggleAccountLinked, authVars, submissionMethod,
                   backendKaggleConfigured,
                   engineVars, backendVars,
                   forgeVars, restVars>>

FrontendNext ==
    \/ Reload
    \/ FetchCompetitionsDone
    \/ HandleSelectCompetition
    \/ HandleNewTrainedModel
    \/ HandleSimulateLinkStart
    \/ HandleSimulateLinkDone
    \/ HandleSimulateUnlinkStart
    \/ HandleSimulateUnlinkDone
    \/ OtherTabSetsCredentials
    \/ OtherTabClearsCredentials
    \/ SetSubmissionMethod
    \/ HandleFileChange
    \/ SetSubmissionMessage
    \/ SetSelectedTrainedModelId
    \/ HandleSubmitRejected
    \/ HandleSubmitReturned
    \/ HandleSubmitAwaits
    \/ SubmitResolves

----------------------------------------------------------------------------
(* The Data Forge: components/DataForge.tsx and the two versions of         *)
(* services/dataForgeService.ts, the simulated one and the one that calls   *)
(* the backend                                                              *)

\* bounds
MaxRuns == 2
MaxPolls == 2
MaxDownloads == 1

\* ForgeJobStatus, ForgeOutputFormat
ForgeJobStatus == {"pending", "processing", "completed", "failed"}
ForgeOutputFormat == {"CSV", "Parquet", "JSON"}

\* the ids of the jobs, in order of initiation (forge_<Date.now()>)
JobIds == <<"forge_1", "forge_2", "forge_3">>

\* what the user types into the two text fields, and the files offered
RuleTexts == {"", "  ", " merge the csv files "}
NameTexts == {"", "clean_data"}
ForgeFileNames == {"raw.zip", "late.csv"}
\* the formats the user selects
SelectedFormats == {"CSV", "JSON"}

\* the files of one change or drop event: files the list does not hold yet,
\* in some order; such a file is known by its name
RECURSIVE FileLists(_)
FileLists(names) ==
    {<<>>} \cup UNION {{<<f>> \o rest : rest \in FileLists(names \ {f})} :
                         f \in names}
Range(seq) == {seq[i] : i \in DOMAIN seq}
OfferedFiles(files) ==
    FileLists(ForgeFileNames \ Range(files)) \ {<<>>}

\* prev.filter((f) => f.id !== fileId)
RECURSIVE RemoveFile(_, _)
RemoveFile(files, fileId) ==
    IF files = <<>> THEN <<>>
    ELSE IF Head(files) = fileId THEN RemoveFile(Tail(files), fileId)
    ELSE <<Head(files)>> \o RemoveFile(Tail(files), fileId)

\* String.prototype.trim on those texts
trimText(t) ==
    CASE t = "  " -> ""
      [] t = " merge the csv files " -> "merge the csv files"
      [] OTHER -> t

\* ForgeConfiguration
ForgeConfiguration(rules, format, name) ==
    [processingRules |-> rules, outputFormat |-> format,
     outputDatasetName |-> name]

\* ForgeJob; a field the object does not have is ""
ForgeJob(id, status, config, outputUrl, errorMessage) ==
    [id |-> id, status |-> status, config |-> config,
     outputUrl |-> outputUrl, errorMessage |-> errorMessage]

NoJob == <<>>
NoForgeError == ""

\* the simulated initiateDataForge, after its timer
initiateDataForgeMock(jobId, config) ==
    ForgeJob(jobId, "processing", config, "", "")

\* a simulated monitor that reports a failed job as still to be started
monitorForgeJobMock_Pending(job, isSuccess) ==
    IF isSuccess
    THEN [job EXCEPT !.status = "completed",
                     !.outputUrl = <<"/mock-data-forge-output-", job.id, ".",
                                     LowerPart(job.config.outputFormat)>>]
    ELSE [job EXCEPT !.status = "pending",
                     !.errorMessage = "Simulated processing error: Could not structure data as configured."]

\* the simulated monitorForgeJob, after its timer; isSuccess is
\* Math.random() > 0.2
monitorForgeJobMock(job, isSuccess) ==
    IF isSuccess
    THEN [job EXCEPT !.status = "completed",
                     !.outputUrl = <<"/mock-data-forge-output-", job.id, ".",
                                     LowerPart(job.config.outputFormat)>>]
    ELSE [job EXCEPT !.status = "failed",
                     !.errorMessage = "Simulated processing error: Could not structure data as configured."]

\* what the backend may answer: an OK response with a job in some status, a
\* non-OK response with or without a message, or no response at all
BackendMessages == {"", "quota exceeded"}
OkReply(status) == [kind |-> "ok", status |-> status, message |-> ""]
ErrorReply(message) == [kind |-> "error", status |-> "", message |-> message]
NoConnection == [kind |-> "unreachable", status |-> "", message |-> ""]
NoReply == [kind |-> "none", status |-> "", message |-> ""]
BackendReplies ==
    {OkReply(st) : st \in ForgeJobStatus}
        \cup {ErrorReply(m) : m \in BackendMessages} \cup {NoConnection}

\* the result of a service call: a job, or a thrown Error with its message
Resolved(job) == [threw |-> FALSE, job |-> <<job>>, message |-> ""]
Thrown(message) == [threw |-> TRUE, job |-> <<>>, message |-> message]

\* a || b on strings
OrElse(a, b) == IF a # "" THEN a ELSE b

\* try { ... } catch (error) { throw new Error(text) } around a body that
\* resolved or threw
CatchAndRethrow(result, text) == IF result.threw THEN Thrown(text) ELSE result

\* the body of the try block of a backend service function
ServiceBody(reply, job, fallback) ==
    IF reply.kind = "unreachable" THEN Thrown("Failed to fetch")
    ELSE IF reply.kind = "error" THEN Thrown(OrElse(reply.message, fallback))
    ELSE Resolved(job)

\* initiateDataForge, backend version
initiateDataForge(reply, jobId, config) ==
    CatchAndRethrow(
        ServiceBody(reply, ForgeJob(jobId, reply.status, config, "", ""),
                    "Backend failed to initiate forge job."),
        "Failed to connect to backend for Data Forge initiation.")

\* monitorForgeJob, backend version
monitorForgeJob(reply, job) ==
    CatchAndRethrow(
        ServiceBody(reply, [job EXCEPT !.status = reply.status],
                    "Backend failed to monitor forge job."),
        "Failed to connect to backend for Data Forge monitoring.")

\* downloadStructuredData, backend version; the blob is not modelled
downloadStructuredData(reply, job) ==
    CatchAndRethrow(
        ServiceBody(reply, job, "Backend failed to download structured data."),
        "Failed to connect to backend for Data Forge download.")

\* DataForge: isForgeRunning and the disabled attribute of the start button
isForgeRunning == currentJob # NoJob /\ currentJob[1].status = "processing"
StartDisabled ==
    \/ isForgeRunning
    \/ Len(inputFiles) = 0
    \/ trimText(processingRules) = ""
    \/ trimText(outputDatasetName) = ""

\* one call of handleStartForge: where it stands, the currentJob its closure
\* holds, its config, its local monitoredJob and the polls it has made
ForgeRun(pc, closureJob, config, job, polls) ==
    [pc |-> pc, closureJob |-> closureJob, config |-> config, job |-> job,
     polls |-> polls]

ForgeInit ==
    /\ inputFiles = <<>>
    /\ processingRules = ""
    /\ outputFormat = "CSV"
    /\ outputDatasetName = ""
    /\ currentJob = NoJob
    /\ forgeError = NoForgeError
    /\ forgeRuns = <<>>
    /\ downloadsPending = 0

NotForge == <<engineVars, frontendVars, backendVars, restVars>>

\* handleFileChange: the file input, disabled while a job is processing
HandleForgeFileChange ==
    /\ ~isForgeRunning
    /\ \E newFiles \in OfferedFiles(inputFiles) :
          inputFiles' = inputFiles \o newFiles
    /\ UNCHANGED <<processingRules, outputFormat, outputDatasetName,
                   currentJob, forgeError, forgeRuns, downloadsPending,
                   NotForge>>

\* handleDrop: the drop zone takes files whatever the job does
HandleDrop ==
    /\ \E newFiles \in OfferedFiles(inputFiles) :
          inputFiles' = inputFiles \o newFiles
    /\ UNCHANGED <<processingRules, outputFormat, outputDatasetName,
                   currentJob, forgeError, forgeRuns, downloadsPending,
                   NotForge>>

\* handleRemoveFile: the Remove button of a file, disabled while a job is
\* processing
HandleRemoveFile ==
    /\ ~isForgeRunning
    /\ \E fileId \in Range(inputFiles) :
          inputFiles' = RemoveFile(inputFiles, fileId)
    /\ UNCHANGED <<processingRules, outputFormat, outputDatasetName,
                   currentJob, forgeError, forgeRuns, downloadsPending,
                   NotForge>>

SetProcessingRules ==
    /\ ~isForgeRunning
    /\ \E t \in RuleTexts : processingRules' = t
    /\ processingRules' # processingRules
    /\ UNCHANGED <<inputFiles, outputFormat, outputDatasetName,
                   currentJob, forgeError, forgeRuns, downloadsPending,
                   NotForge>>

\* the select output-format: onChange
SetOutputFormat ==
    /\ ~isForgeRunning
    /\ \E format \in SelectedFormats : outputFormat' = format
    /\ outputFormat' # outputFormat
    /\ UNCHANGED <<inputFiles, processingRules, outputDatasetName,
                   currentJob, forgeError, forgeRuns, downloadsPending,
                   NotForge>>

SetOutputDatasetName ==
    /\ ~isForgeRunning
    /\ \E t \in NameTexts : outputDatasetName' = t
    /\ outputDatasetName' # outputDatasetName
    /\ UNCHANGED <<inputFiles, processingRules, outputFormat,
                   currentJob, forgeError, forgeRuns, downloadsPending,
                   NotForge>>

\* handleStartForge up to its first await: the call of initiateDataForge
HandleStartForge ==
    /\ ~StartDisabled
    /\ Len(forgeRuns) < MaxRuns
    /\ forgeError' = NoForgeError
    /\ currentJob' = NoJob
    /\ forgeRuns' = Append(forgeRuns,
          ForgeRun("initiating", currentJob,
                   ForgeConfiguration(trimText(processingRules), outputFormat,
                                      trimText(outputDatasetName)),
                   NoJob, 0))
    /\ UNCHANGED <<forgeInputVars, downloadsPending, NotForge>>

\* the tail of handleStartForge once the loop has ended with monitoredJob
\* job: a completed job resets the inputs
AfterLoop(job) ==
    IF job.status = "completed"
    THEN /\ inputFiles' = <<>>
         /\ processingRules' = ""
         /\ outputDatasetName' = ""
         /\ UNCHANGED outputFormat
    ELSE UNCHANGED forgeInputVars

\* handleStartForge from the resolution of a service call that gave job:
\* setCurrentJob, then the loop test
Continue(r, job, polls) ==
    /\ currentJob' = <<job>>
    /\ UNCHANGED forgeError
    /\ IF job.status = "processing"
       THEN /\ forgeRuns' = [forgeRuns EXCEPT ![r].pc = "polling",
                                              ![r].job = <<job>>,
                                              ![r].polls = polls]
            /\ UNCHANGED forgeInputVars
       ELSE /\ forgeRuns' = [forgeRuns EXCEPT ![r].pc = "done",
                                              ![r].job = <<job>>,
                                              ![r].polls = polls]
            /\ AfterLoop(job)

\* the catch block of handleStartForge
CatchForge(r, message) ==
    LET run == forgeRuns[r]
        baseJob == IF run.closureJob # NoJob THEN run.closureJob[1]
                   ELSE ForgeJob("unknown", "failed", run.config, "", "")
        text == OrElse(message,
                       "An unexpected error occurred in the forge backend.")
    IN  /\ currentJob' = <<[baseJob EXCEPT !.status = "failed",
                                           !.errorMessage = text]>>
        /\ forgeError' = text
        /\ forgeRuns' = [forgeRuns EXCEPT ![r].pc = "done"]
        /\ UNCHANGED forgeInputVars

\* the simulated initiateDataForge resolves
InitiateResolvesMock ==
    \E r \in 1 .. Len(forgeRuns) :
        /\ forgeRuns[r].pc = "initiating"
        /\ Continue(r, initiateDataForgeMock(JobIds[r], forgeRuns[r].config),
                    0)
        /\ UNCHANGED <<downloadsPending, NotForge>>

\* the delay and the simulated monitorForgeJob resolve
MonitorResolvesMock ==
    \E r \in 1 .. Len(forgeRuns), isSuccess \in BOOLEAN :
        /\ forgeRuns[r].pc = "polling"
        /\ Continue(r, monitorForgeJobMock(forgeRuns[r].job[1], isSuccess),
                    forgeRuns[r].polls + 1)
        /\ UNCHANGED <<downloadsPending, NotForge>>

\* handleDownloadOutput up to its await
HandleDownloadOutput ==
    /\ currentJob # NoJob /\ currentJob[1].status = "completed"
    /\ currentJob[1].id # ""
    /\ downloadsPending < MaxDownloads
    /\ downloadsPending' = downloadsPending + 1
    /\ UNCHANGED <<forgeInputVars, currentJob, forgeError, forgeRuns,
                   NotForge>>

\* handleStartForge from the settlement of a backend service call
Settle(r, result, polls) ==
    IF result.threw THEN CatchForge(r, result.message)
    ELSE Continue(r, result.job[1], polls)

\* the backend answers the initiate request of run r
InitiateResponds(r, reply) ==
    /\ forgeRuns[r].pc = "initiating"
    /\ Settle(r, initiateDataForge(reply, JobIds[r], forgeRuns[r].config), 0)
    /\ UNCHANGED <<downloadsPending, NotForge>>

\* the delay ends and the backend answers the monitor request of run r; the
\* backend reports a job as processing fewer than MaxPolls times
MonitorResponds(r, reply) ==
    /\ forgeRuns[r].pc = "polling"
    /\ reply.status = "processing" => forgeRuns[r].polls + 1 < MaxPolls
    /\ Settle(r, monitorForgeJob(reply, forgeRuns[r].job[1]),
              forgeRuns[r].polls + 1)
    /\ UNCHANGED <<downloadsPending, NotForge>>

\* the backend answers a download request; handleDownloadOutput saves the
\* file or reports the failure
DownloadResponds(reply) ==
    /\ downloadsPending > 0
    /\ downloadsPending' = downloadsPending - 1
    /\ IF downloadStructuredData(reply, NoJob).threw
       THEN forgeError' = "Failed to download the structured data."
       ELSE UNCHANGED forgeError
    /\ UNCHANGED <<forgeInputVars, currentJob, forgeRuns, NotForge>>

InitiateReturns ==
    \E r \in 1 .. Len(forgeRuns), reply \in BackendReplies :
        InitiateResponds(r, reply)

MonitorReturns ==
    \E r \in 1 .. Len(forgeRuns), reply \in BackendReplies :
        MonitorResponds(r, reply)

DownloadReturns ==
    \E reply \in BackendReplies : DownloadResponds(reply)

ForgeUserNext ==
    \/ HandleForgeFileChange
    \/ HandleDrop
    \/ HandleRemoveFile
    \/ SetProcessingRules
    \/ SetOutputFormat
    \/ SetOutputDatasetName
    \/ HandleStartForge

ForgeMockNext ==
    \/ ForgeUserNext
    \/ InitiateResolvesMock
    \/ MonitorResolvesMock

ForgeNext ==
    \/ ForgeUserNext
    \/ HandleDownloadOutput
    \/ InitiateReturns
    \/ MonitorReturns
    \/ DownloadReturns

\* the application before anyone opens it
----------------------------------------------------------------------------
(* The mount of App (src/App.tsx), effect by effect: the effects of a       *)
(* commit run in the order of their declaration, the state updates they     *)
(* make are rendered afterwards, and inside <React.StrictMode> a            *)
(* development build runs the mount effects twice before it renders.        *)

\* the effects of App in the order of their declaration
MountEffects ==
    <<"getCompetitions", "loadModels", "saveModels", "loadSubmissions",
      "saveSubmissions">>

\* lists an earlier session may have saved
SavedModelLists ==
    {<<>>} \cup {<<[id |-> ModelIds[1], name |-> TrainedModelNames[1],
                     competitionId |-> CompetitionIds[i]]>> :
                    i \in 1 .. Len(CompetitionIds)}
SavedHistories ==
    {<<>>,
     <<[competitionId |-> CompetitionIds[1],
        sourceName |-> FileName("pred", ".CSV"), message |-> "first try",
        status |-> "failed", kaggleLink |-> Undefined]>>}

\* the storages a page load may find: nothing saved, or a list under each key
SavedStorages ==
    {EmptyStorage}
        \cup {SaveSubmissions(SaveModels(EmptyStorage, ml), h) :
                 ml \in SavedModelLists, h \in SavedHistories}

\* App rendered for the first time over storage ls: useState initial values,
\* all mount effects still to run
PageLoaded(ls, strict) ==
    /\ localStorage = ls
    /\ storageAtLoad = ls
    /\ trainedModels = <<>>
    /\ submissionHistory = <<>>
    /\ isKaggleAccountLinked = FALSE
    /\ effectQueue = MountEffects
    /\ modelUpdates = <<>>
    /\ historyUpdates = <<>>
    /\ strictMode = strict
    /\ remounted = FALSE

\* the mount is not under study
MountIdle ==
    /\ effectQueue = <<>>
    /\ modelUpdates = <<>>
    /\ historyUpdates = <<>>
    /\ strictMode = FALSE
    /\ remounted = FALSE
    /\ storageAtLoad = EmptyStorage

\* ModelTrainer as it is mounted: selectedCompetitionId is still null
TrainerInit ==
    /\ trainerCompetitionId = NoId
    /\ modelName = ""
    /\ modelCode = ""
    /\ isTraining = FALSE
    /\ trainingError = <<>>
    /\ trainingSuccess = <<>>
    /\ saveError = <<>>
    /\ saveSuccess = <<>>
    /\ trainPending = <<>>
    /\ prefillSuggestion = FALSE
    /\ syncPending = FALSE
    /\ userPick = NoId

\* App: useState<string | null>(null)
NoPrompt == ""

\* ModelConceptualizer as it is mounted
ConceptInit ==
    /\ oracleConceptualizerPrompt = NoPrompt
    /\ userPrompt = ""
    /\ suggestion = <<>>
    /\ conceptIsLoading = FALSE
    /\ conceptError = NoError
    /\ isOraclePromptActive = FALSE
    /\ generatePending = <<>>
    /\ oracleEffectPending = FALSE
    /\ userTyped = <<>>

RestInit == MountIdle /\ TrainerInit /\ ConceptInit

\* what the mount leaves alone
NotMount ==
    <<engineVars, backendVars, forgeVars, trainerVars, conceptVars,
      competitionsLoaded,
      selectedCompetitionId, authVars, formVars, callVars,
      backendKaggleConfigured>>

\* if (stored) setX(JSON.parse(stored)): the updates a load effect queues
LoadUpdate(ls, key, parsed) ==
    LET item == getItem(ls, key)
    IN  IF item.present /\ item.text # <<>> THEN <<parsed>> ELSE <<>>

\* React runs the next effect of the commit with the values of the render
\* that declared it
RunEffect ==
    /\ effectQueue # <<>>
    /\ effectQueue' = Tail(effectQueue)
    /\ LET effect == Head(effectQueue)
       IN  /\ isKaggleAccountLinked' =
                 IF effect = "getCompetitions"
                 THEN hasKaggleCredentialsConfigured(localStorage)
                 ELSE isKaggleAccountLinked
           /\ modelUpdates' =
                 IF effect = "loadModels"
                 THEN modelUpdates
                      \o LoadUpdate(localStorage, LOCAL_STORAGE_MODELS_KEY,
                                    LoadModels(localStorage))
                 ELSE modelUpdates
           /\ historyUpdates' =
                 IF effect = "loadSubmissions"
                 THEN historyUpdates
                      \o LoadUpdate(localStorage,
                                    LOCAL_STORAGE_SUBMISSIONS_KEY,
                                    LoadSubmissions(localStorage))
                 ELSE historyUpdates
           /\ localStorage' =
                 CASE effect = "saveModels" ->
                        SaveModels(localStorage, trainedModels)
                   [] effect = "saveSubmissions" ->
                        SaveSubmissions(localStorage, submissionHistory)
                   [] OTHER -> localStorage
    /\ UNCHANGED <<trainedModels, submissionHistory, strictMode, remounted,
                   storageAtLoad, NotMount>>

\* StrictMode: once the mount effects have run, they are run a second time,
\* before the updates they queued are rendered
StrictRemount ==
    /\ effectQueue = <<>>
    /\ strictMode /\ ~remounted
    /\ remounted' = TRUE
    /\ effectQueue' = MountEffects
    /\ UNCHANGED <<localStorage, trainedModels, submissionHistory,
                   isKaggleAccountLinked, modelUpdates, historyUpdates,
                   strictMode, storageAtLoad, NotMount>>

\* the last of the values set; the state as it is when nothing was set
LastOf(updates, state) ==
    IF updates = <<>> THEN state ELSE updates[Len(updates)]

\* the queued updates are rendered: each state takes the last value set, and
\* the save effect of a state that was set (JSON.parse gives a new array) is
\* queued
Render ==
    /\ effectQueue = <<>>
    /\ strictMode => remounted
    /\ modelUpdates # <<>> \/ historyUpdates # <<>>
    /\ trainedModels' = LastOf(modelUpdates, trainedModels)
    /\ submissionHistory' = LastOf(historyUpdates, submissionHistory)
    /\ effectQueue' =
          (IF modelUpdates # <<>> THEN <<"saveModels">> ELSE <<>>)
              \o (IF historyUpdates # <<>> THEN <<"saveSubmissions">>
                  ELSE <<>>)
    /\ modelUpdates' = <<>>
    /\ historyUpdates' = <<>>
    /\ UNCHANGED <<localStorage, isKaggleAccountLinked, strictMode,
                   remounted, storageAtLoad, NotMount>>

\* no effect to run, no update to render
MountQuiescent ==
    /\ effectQueue = <<>>
    /\ modelUpdates = <<>>
    /\ historyUpdates = <<>>
    /\ strictMode => remounted

\* the user reloads the page once it has settled: the state is lost, the
\* storage is kept
ReloadPage ==
    /\ MountQuiescent
    /\ \E strict \in BOOLEAN :
          /\ strictMode' = strict
          /\ storageAtLoad' = localStorage
          /\ trainedModels' = <<>>
          /\ submissionHistory' = <<>>
          /\ isKaggleAccountLinked' = FALSE
          /\ effectQueue' = MountEffects
          /\ modelUpdates' = <<>>
          /\ historyUpdates' = <<>>
          /\ remounted' = FALSE
    /\ UNCHANGED <<localStorage, NotMount>>

MountNext ==
    \/ RunEffect
    \/ StrictRemount
    \/ Render
    \/ ReloadPage

FrontendQuiet ==
    /\ Mounted(EmptyStorage)
    /\ backendKaggleConfigured = FALSE

Init == EngineInit /\ FrontendInit /\ BackendDown /\ ForgeInit /\ RestInit
Spec == Init /\ [][FrontendNext]_vars


\* the engine and the scorer run apart from the browser application
InitEngine == EngineInit /\ FrontendQuiet /\ BackendDown /\ ForgeInit /\ RestInit
SpecEngine == InitEngine /\ [][EngineNext]_vars

InitBackend == EngineInit /\ FrontendQuiet /\ BackendDown /\ ForgeInit /\ RestInit
SpecBackend == InitBackend /\ [][BackendNext]_vars

----------------------------------------------------------------------------
(* ModelTrainer (src/unnamed/part_000, components/ModelTrainer.tsx) with    *)
(* the state of App it is given as props                                    *)

\* bound on the models trained
MaxTrainings == 2

\* model_${Date.now()}: the ids of the models in the order they are made
NewModelId(models) ==
    <<"model_1", "model_2", "model_3", "model_4">>[Len(models) + 1]

\* what the user types as a name and as code; the template 'rf'
ModelNames == {"", "  ", "my model"}
ModelCodes == {"", "fit()"}
TemplateName == "Random Forest"
TemplateCode == "RandomForestClassifier()"

\* the suggestion handed over by the conceptualizer
SuggestionName == "Gradient Boosting"
SuggestionCode == "GradientBoostingClassifier()"

\* the answers of POST /api/train-model: a JSON body with or without
\* success, under an OK or a non-OK status; a body that is not JSON; no
\* answer at all
TrainReply(kind, ok, success, message) ==
    [kind |-> kind, ok |-> ok, success |-> success, message |-> message]
TrainReplies ==
    {TrainReply("json", ok, success, message) :
        ok \in BOOLEAN, success \in BOOLEAN,
        message \in {"", "training crashed"}}
        \cup {TrainReply("notjson", TRUE, FALSE, ""),
              TrainReply("network", FALSE, FALSE, "")}

\* the message of the Error handleTrainModel catches for a reply, "" when
\* nothing is thrown
TrainThrows(reply) ==
    CASE reply.kind = "network" -> "Failed to fetch"
      [] reply.kind = "notjson" -> "Unexpected token < in JSON"
      [] ~reply.ok \/ ~reply.success ->
            OrElse(reply.message,
                   "Backend failed to simulate training or evaluation.")
      [] OTHER -> ""

\* the trainingError of the catch block
TrainFailure(cause) ==
    <<"Failed to simulate model training or get Oracle evaluation from backend: ",
      cause, ". Please ensure your backend is running.">>

\* validateInputs: the message, or "" (null)
validateInputs(competitionId, name, code) ==
    IF competitionId = NoId THEN "Please select a competition."
    ELSE IF trim(name) = "" THEN "Please enter a name for your model."
    ELSE IF trim(code) = ""
         THEN "Please provide Python training code for your model."
    ELSE ""

\* App: selectedCompetition is found among the competitions loaded
selectedCompetitionLoaded == competitionsLoaded /\ selectedCompetitionId # NoId

\* isTraining || isSaving; isSaving is true only inside handleSaveModel
isActionDisabled == isTraining

\* what ModelTrainer and the part of App it reads leave alone
NotTrainer ==
    <<engineVars, backendVars, forgeVars, mountVars, conceptVars,
      submissionHistory,
      isKaggleAccountLinked, authVars, formVars, callVars,
      backendKaggleConfigured>>
appTrainerVars == <<localStorage, competitionsLoaded, selectedCompetitionId,
                    trainedModels>>

\* App: fetchKaggleCompetitions resolves and the first competition is
\* selected; ModelTrainer is rendered with the new props
CompetitionsFetched ==
    /\ ~competitionsLoaded
    /\ competitionsLoaded' = TRUE
    /\ selectedCompetitionId' = CompetitionIds[1]
    /\ syncPending' = TRUE
    /\ UNCHANGED <<localStorage, trainedModels, trainerInputs, isTraining,
                   trainingError, trainingSuccess, saveVars, trainPending,
                   prefillSuggestion, userPick, NotTrainer>>

\* App.handleSelectCompetition; ModelTrainer is rendered with the new prop
CompetitionSelected ==
    /\ competitionsLoaded /\ ~syncPending
    /\ \E i \in 1 .. Len(CompetitionIds) :
          /\ CompetitionIds[i] # selectedCompetitionId
          /\ selectedCompetitionId' = CompetitionIds[i]
    /\ syncPending' = TRUE
    /\ UNCHANGED <<localStorage, competitionsLoaded, trainedModels,
                   trainerInputs, isTraining, trainingError, trainingSuccess,
                   saveVars, trainPending, prefillSuggestion, userPick,
                   NotTrainer>>

\* App.handleUseSuggestionForTraining
HandleUseSuggestionForTraining ==
    /\ ~syncPending /\ ~prefillSuggestion
    /\ prefillSuggestion' = TRUE
    /\ syncPending' = TRUE
    /\ UNCHANGED <<appTrainerVars, trainerInputs, isTraining, trainingError,
                   trainingSuccess, saveVars, trainPending, userPick,
                   NotTrainer>>

\* the trainer's own selector: onChange sets trainerCompetitionId
SetTrainerCompetitionId ==
    /\ ~syncPending
    /\ ~isActionDisabled /\ competitionsLoaded
    /\ \E i \in 1 .. Len(CompetitionIds) :
          /\ CompetitionIds[i] # trainerCompetitionId
          /\ trainerCompetitionId' = CompetitionIds[i]
          /\ userPick' = CompetitionIds[i]
    /\ syncPending' = TRUE
    /\ UNCHANGED <<appTrainerVars, modelName, modelCode, isTraining,
                   trainingError, trainingSuccess, saveVars, trainPending,
                   prefillSuggestion, NotTrainer>>

\* the two effects of ModelTrainer, in the order of their declaration, with
\* the values of the render they belong to: the prefill effect, then the
\* effect that follows selectedCompetitionId; a state they set makes them
\* run again
TrainerEffects ==
    /\ syncPending
    /\ LET prefillSets == /\ prefillSuggestion
                          /\ selectedCompetitionId # NoId
                          /\ trainerCompetitionId = NoId
           syncSets == /\ selectedCompetitionId # NoId
                       /\ trainerCompetitionId # selectedCompetitionId
       IN  /\ trainerCompetitionId' =
                 IF prefillSets \/ syncSets THEN selectedCompetitionId
                 ELSE trainerCompetitionId
           /\ modelName' = IF prefillSuggestion THEN SuggestionName
                           ELSE modelName
           /\ modelCode' = IF prefillSuggestion THEN SuggestionCode
                           ELSE modelCode
           /\ trainingError' = IF prefillSuggestion THEN <<>>
                               ELSE trainingError
           /\ trainingSuccess' = IF prefillSuggestion THEN <<>>
                                 ELSE trainingSuccess
           /\ saveError' = IF prefillSuggestion THEN <<>> ELSE saveError
           /\ saveSuccess' = IF prefillSuggestion THEN <<>> ELSE saveSuccess
           /\ prefillSuggestion' = FALSE
           /\ syncPending' = (prefillSuggestion \/ syncSets)
    /\ UNCHANGED <<appTrainerVars, isTraining, trainPending, userPick,
                   NotTrainer>>

\* handleTemplateSelect, and the name and code fields
HandleTemplateSelect ==
    /\ ~syncPending /\ ~isActionDisabled
    /\ modelName' = TemplateName
    /\ modelCode' = TemplateCode
    /\ trainingError' = <<>>
    /\ trainingSuccess' = <<>>
    /\ saveError' = <<>>
    /\ saveSuccess' = <<>>
    /\ UNCHANGED <<appTrainerVars, trainerCompetitionId, isTraining,
                   trainPending, prefillSuggestion, syncPending, userPick,
                   NotTrainer>>

SetModelName ==
    /\ ~syncPending /\ ~isActionDisabled
    /\ \E n \in ModelNames : modelName' = n
    /\ UNCHANGED <<appTrainerVars, trainerCompetitionId, modelCode,
                   isTraining, trainingError, trainingSuccess, saveVars,
                   trainPending, prefillSuggestion, syncPending, userPick,
                   NotTrainer>>

SetModelCode ==
    /\ ~syncPending /\ ~isActionDisabled
    /\ \E c \in ModelCodes : modelCode' = c
    /\ UNCHANGED <<appTrainerVars, trainerCompetitionId, modelName,
                   isTraining, trainingError, trainingSuccess, saveVars,
                   trainPending, prefillSuggestion, syncPending, userPick,
                   NotTrainer>>

\* handleTrainModel returns on one of its own checks
HandleTrainModelRejected ==
    /\ ~syncPending /\ ~isActionDisabled
    /\ LET validationError ==
               validateInputs(trainerCompetitionId, modelName, modelCode)
       IN  /\ validationError # "" \/ ~selectedCompetitionLoaded
           /\ trainingError' =
                 IF validationError # "" THEN <<validationError>>
                 ELSE <<"Competition details are not loaded. Cannot simulate training evaluation.">>
           /\ trainingSuccess' =
                 IF validationError # "" THEN <<>> ELSE trainingSuccess
           /\ saveSuccess' =
                 IF validationError # "" THEN <<>> ELSE saveSuccess
           /\ saveError' =
                 IF validationError # "" THEN <<>> ELSE saveError
    /\ UNCHANGED <<appTrainerVars, trainerInputs, isTraining, trainPending,
                   prefillSuggestion, syncPending, userPick, NotTrainer>>

\* handleTrainModel up to its await of fetch
HandleTrainModelAwaits ==
    /\ ~syncPending /\ ~isActionDisabled
    /\ Len(trainedModels) < MaxTrainings
    /\ validateInputs(trainerCompetitionId, modelName, modelCode) = ""
    /\ selectedCompetitionLoaded
    /\ isTraining' = TRUE
    /\ trainingError' = <<>>
    /\ trainingSuccess' = <<>>
    /\ saveSuccess' = <<>>
    /\ saveError' = <<>>
    /\ trainPending' = <<[name |-> trim(modelName),
                          competitionId |-> trainerCompetitionId]>>
    /\ UNCHANGED <<appTrainerVars, trainerInputs, prefillSuggestion,
                   syncPending, userPick, NotTrainer>>

\* a handleNewTrainedModel that puts the new model in place of the
\* collection
AddTrainedModel_Replace(models, model) == <<model>>

\* App.handleNewTrainedModel: setTrainedModels(prev => [...prev, model])
AddTrainedModel(models, model) == Append(models, model)

\* the request is answered with reply, or fails, and handleTrainModel runs
\* to its end
TrainRespondsWith(reply) ==
    /\ trainPending # <<>>
    /\    IF TrainThrows(reply) = ""
          THEN /\ trainedModels' =
                     AddTrainedModel(trainedModels,
                        [id |-> NewModelId(trainedModels),
                         name |-> trainPending[1].name,
                         competitionId |-> trainPending[1].competitionId])
               /\ localStorage' = SaveModels(localStorage, trainedModels')
               /\ modelName' = ""
               /\ modelCode' = ""
               /\ trainingSuccess' = <<trainPending[1].name>>
               /\ UNCHANGED trainingError
          ELSE /\ trainingError' = TrainFailure(TrainThrows(reply))
               /\ UNCHANGED <<localStorage, trainedModels, modelName,
                              modelCode, trainingSuccess>>
    /\ isTraining' = FALSE
    /\ trainPending' = <<>>
    /\ UNCHANGED <<competitionsLoaded, selectedCompetitionId,
                   trainerCompetitionId, saveVars, prefillSuggestion,
                   syncPending, userPick, NotTrainer>>

\* handleSaveModel returns on validateInputs
HandleSaveModelRejected ==
    /\ ~syncPending /\ ~isActionDisabled
    /\ LET validationError ==
               validateInputs(trainerCompetitionId, modelName, modelCode)
       IN  /\ validationError # ""
           /\ saveError' = <<validationError>>
    /\ saveSuccess' = <<>>
    /\ trainingSuccess' = <<>>
    /\ trainingError' = <<>>
    /\ UNCHANGED <<appTrainerVars, trainerInputs, isTraining, trainPending,
                   prefillSuggestion, syncPending, userPick, NotTrainer>>

\* handleSaveModel on valid inputs: the model is added without a training
HandleSaveModel ==
    /\ ~syncPending /\ ~isActionDisabled
    /\ Len(trainedModels) < MaxTrainings
    /\ validateInputs(trainerCompetitionId, modelName, modelCode) = ""
    /\ trainedModels' =
          AddTrainedModel(trainedModels,
             [id |-> NewModelId(trainedModels), name |-> trim(modelName),
              competitionId |-> trainerCompetitionId])
    /\ localStorage' = SaveModels(localStorage, trainedModels')
    /\ modelName' = ""
    /\ modelCode' = ""
    /\ saveSuccess' = <<trim(modelName)>>
    /\ saveError' = <<>>
    /\ trainingSuccess' = <<>>
    /\ trainingError' = <<>>
    /\ UNCHANGED <<competitionsLoaded, selectedCompetitionId,
                   trainerCompetitionId, isTraining, trainPending,
                   prefillSuggestion, syncPending, userPick, NotTrainer>>

TrainResponds == \E reply \in TrainReplies : TrainRespondsWith(reply)

TrainerNext ==
    \/ CompetitionsFetched
    \/ CompetitionSelected
    \/ HandleUseSuggestionForTraining
    \/ SetTrainerCompetitionId
    \/ TrainerEffects
    \/ HandleTemplateSelect
    \/ SetModelName
    \/ SetModelCode
    \/ HandleTrainModelRejected
    \/ HandleTrainModelAwaits
    \/ TrainResponds
    \/ HandleSaveModelRejected
    \/ HandleSaveModel

\* ModelTrainer in a freshly mounted App
InitTrainer ==
    /\ EngineInit /\ FrontendQuiet /\ BackendDown /\ ForgeInit /\ RestInit
SpecTrainer == InitTrainer /\ [][TrainerNext]_vars

----------------------------------------------------------------------------
(* ModelConceptualizer (src/components/ModelConceptualizer.tsx) with         *)
(* getGeminiModelSuggestion (src/services/kaggleService.ts) and the oracle   *)
(* prompt App holds for it                                                   *)

\* what the user types, and the prompts the oracle suggests
PromptTexts == {"", "  ", "an ensemble", "a cnn"}
OraclePrompts == {"an ensemble", "a cnn"}

\* how a call of getGeminiModelSuggestion goes: the API key is not set, the
\* API call throws, the text of the response is not JSON, it is the JSON
\* null, or it is a suggestion
GeminiOutcomes == {"nokey", "exception", "unparsable", "null", "suggestion"}

\* getGeminiModelSuggestion: the value its promise resolves to, <<>> being
\* null; it catches what is thrown and never rejects
getGeminiModelSuggestion(outcome, prompt) ==
    IF outcome = "suggestion"
    THEN <<[modelName |-> "Gradient Boosting", promptUsed |-> ""]>>
    ELSE <<>>

\* the error of the catch block of handleGenerateSuggestion
GenerateFailed == "Failed to get model suggestion. Please try again."

\* what ModelConceptualizer leaves alone
NotConcept ==
    <<engineVars, frontendVars, backendVars, forgeVars, mountVars,
      trainerVars>>

\* App.handleSuggestConceptualizerPrompt, called by the oracle
HandleSuggestConceptualizerPrompt ==
    /\ ~oracleEffectPending
    /\ \E prompt \in OraclePrompts : oracleConceptualizerPrompt' = prompt
    /\ oracleEffectPending' = TRUE
    /\ userTyped' = <<>>
    /\ UNCHANGED <<userPrompt, suggestion, conceptIsLoading, conceptError,
                   isOraclePromptActive, generatePending, NotConcept>>

\* the oracle prompt effect; the states it sets are among its dependencies
\* and make it run again
OraclePromptEffect ==
    /\ oracleEffectPending
    /\ IF /\ oracleConceptualizerPrompt # NoPrompt
          /\ oracleConceptualizerPrompt # userPrompt
       THEN /\ userPrompt' = oracleConceptualizerPrompt
            /\ isOraclePromptActive' = TRUE
            /\ oracleConceptualizerPrompt' = NoPrompt
            /\ UNCHANGED oracleEffectPending
       ELSE /\ oracleEffectPending' = FALSE
            /\ UNCHANGED <<userPrompt, isOraclePromptActive,
                           oracleConceptualizerPrompt>>
    /\ UNCHANGED <<suggestion, conceptIsLoading, conceptError,
                   generatePending, userTyped, NotConcept>>

\* the textarea user-model-prompt: onChange
SetUserPrompt ==
    /\ ~oracleEffectPending
    /\ selectedCompetitionLoaded /\ ~conceptIsLoading
    /\ \E text \in PromptTexts :
          /\ text # userPrompt
          /\ userPrompt' = text
          /\ userTyped' = <<text>>
    /\ isOraclePromptActive' = FALSE
    /\ oracleEffectPending' = TRUE
    /\ UNCHANGED <<oracleConceptualizerPrompt, suggestion, conceptIsLoading,
                   conceptError, generatePending, NotConcept>>

\* handleGenerateSuggestion returns on one of its own checks
HandleGenerateSuggestionRejected ==
    /\ ~oracleEffectPending /\ ~conceptIsLoading
    /\ ~selectedCompetitionLoaded \/ trim(userPrompt) = ""
    /\ conceptError' =
          IF ~selectedCompetitionLoaded
          THEN "Please select a competition first."
          ELSE "Please enter a prompt for the model suggestion."
    /\ UNCHANGED <<oracleConceptualizerPrompt, userPrompt, suggestion,
                   conceptIsLoading, isOraclePromptActive, generatePending,
                   oracleEffectPending, userTyped, NotConcept>>

\* handleGenerateSuggestion up to its await
HandleGenerateSuggestionAwaits ==
    /\ ~oracleEffectPending /\ ~conceptIsLoading
    /\ selectedCompetitionLoaded /\ trim(userPrompt) # ""
    /\ conceptIsLoading' = TRUE
    /\ conceptError' = NoError
    /\ suggestion' = <<>>
    /\ generatePending' = <<userPrompt>>
    /\ UNCHANGED <<oracleConceptualizerPrompt, userPrompt,
                   isOraclePromptActive, oracleEffectPending, userTyped,
                   NotConcept>>

\* the promise of getGeminiModelSuggestion resolves and
\* handleGenerateSuggestion runs to its end
GenerateResolvesWith(outcome) ==
    /\ generatePending # <<>>
    /\ LET result == getGeminiModelSuggestion(outcome, generatePending[1])
       IN  /\ suggestion' =
                 IF result # <<>>
                 THEN <<[result[1] EXCEPT !.promptUsed = generatePending[1]]>>
                 ELSE suggestion
           \* the call did not throw: the catch block is passed over
           /\ UNCHANGED conceptError
    /\ conceptIsLoading' = FALSE
    /\ isOraclePromptActive' = FALSE
    /\ generatePending' = <<>>
    /\ UNCHANGED <<oracleConceptualizerPrompt, userPrompt,
                   oracleEffectPending, userTyped, NotConcept>>

GenerateResolves == \E outcome \in GeminiOutcomes : GenerateResolvesWith(outcome)

ConceptNext ==
    \/ CompetitionsFetched
    \/ HandleSuggestConceptualizerPrompt
    \/ OraclePromptEffect
    \/ SetUserPrompt
    \/ HandleGenerateSuggestionRejected
    \/ HandleGenerateSuggestionAwaits
    \/ GenerateResolves

\* ModelConceptualizer in an App that has just been mounted
InitConcept ==
    /\ EngineInit /\ FrontendQuiet /\ BackendDown /\ ForgeInit /\ RestInit
SpecConcept == InitConcept /\ [][ConceptNext]_vars

\* the mount of App over the storage an earlier session left
InitMount ==
    /\ EngineInit /\ BackendDown /\ ForgeInit /\ TrainerInit /\ ConceptInit
    /\ \E ls \in SavedStorages
              \cup {simulateSetKaggleCredentials(l) : l \in SavedStorages},
          strict \in BOOLEAN : PageLoaded(ls, strict)
    /\ competitionsLoaded = FALSE
    /\ selectedCompetitionId = NoId
    /\ isLinked = FALSE
    /\ authPc = "idle"
    /\ submissionMethod = "file"
    /\ submissionFile = NoFile
    /\ submissionMessage = ""
    /\ selectedTrainedModelId = NoId
    /\ isLoading = FALSE
    /\ submissionResult = <<>>
    /\ pending = <<>>
    /\ backendKaggleConfigured = FALSE
SpecMount == InitMount /\ [][MountNext]_vars

\* the files passed to submitKagglePrediction: none, names that end in .csv
\* in three spellings, names that do not, each with and without content
ServiceFiles ==
    {NoFile}
        \cup {File(stem, ext, size) :
                 stem \in {"pred"},
                 ext \in {".csv", ".CSV", ".Csv", ".txt", ""},
                 size \in {0, 10}}
        \cup {File("CSV", "", 10), File("", ".csv", 10)}

\* what a call of submitKagglePrediction leaves alone
NotService ==
    <<engineVars, backendVars, forgeVars, restVars, competitionsLoaded,
      trainedModels, submissionHistory, isKaggleAccountLinked, authVars,
      submissionMethod, selectedTrainedModelId, isLoading,
      backendKaggleConfigured>>

\* the arguments of a call and the storage it finds
ServiceInputs ==
    /\ localStorage \in {EmptyStorage,
                          simulateSetKaggleCredentials(EmptyStorage)}
    /\ submissionFile \in ServiceFiles
    /\ selectedCompetitionId \in
          {CompetitionIds[i] : i \in 1 .. Len(CompetitionIds)}
    /\ submissionMessage \in Messages

\* submitKagglePrediction(competitionId, file, message) up to its return or
\* its await
CallSubmitKagglePrediction ==
    /\ submissionResult = <<>> /\ pending = <<>>
    /\ LET early == submitKagglePredictionEarly(localStorage, submissionFile)
       IN  IF early # <<>>
           THEN /\ submissionResult' = early
                /\ UNCHANGED pending
           ELSE /\ pending' = <<Call("submitKagglePrediction",
                                     selectedCompetitionId,
                                     submissionFile.name,
                                     submissionMessage)>>
                /\ UNCHANGED submissionResult
    /\ UNCHANGED <<localStorage, submissionFile, selectedCompetitionId,
                   submissionMessage, NotService>>

\* the timer of the simulated API call fires and Math.random decides
ServiceResolves ==
    /\ pending # <<>>
    /\ \E isSuccess \in BOOLEAN :
          submissionResult' =
              <<submitKagglePredictionLate(pending[1].competitionId,
                                           isSuccess)>>
    /\ pending' = <<>>
    /\ UNCHANGED <<localStorage, submissionFile, selectedCompetitionId,
                   submissionMessage, NotService>>

\* the next call, with other arguments
NextServiceCall ==
    /\ submissionResult # <<>>
    /\ submissionResult' = <<>>
    /\ \E f \in ServiceFiles : submissionFile' = f
    /\ UNCHANGED <<localStorage, selectedCompetitionId, submissionMessage,
                   pending, NotService>>

ServiceNext ==
    \/ CallSubmitKagglePrediction
    \/ ServiceResolves
    \/ NextServiceCall

\* submitKagglePrediction called directly
InitService ==
    /\ EngineInit /\ BackendDown /\ ForgeInit /\ RestInit
    /\ ServiceInputs
    /\ competitionsLoaded = TRUE
    /\ trainedModels = <<>>
    /\ submissionHistory = <<>>
    /\ isKaggleAccountLinked = hasKaggleCredentialsConfigured(localStorage)
    /\ isLinked = hasKaggleCredentialsConfigured(localStorage)
    /\ authPc = "idle"
    /\ submissionMethod = "file"
    /\ selectedTrainedModelId = NoId
    /\ isLoading = FALSE
    /\ submissionResult = <<>>
    /\ pending = <<>>
    /\ backendKaggleConfigured = FALSE
SpecService == InitService /\ [][ServiceNext]_vars

\* the Data Forge with the service that calls the backend
InitForge == EngineInit /\ FrontendQuiet /\ BackendDown /\ ForgeInit /\ RestInit
SpecForge == InitForge /\ [][ForgeNext]_vars

\* the Data Forge with the simulated service; its timers fire
InitForgeMock == EngineInit /\ FrontendQuiet /\ BackendDown /\ ForgeInit /\ RestInit
SpecForgeMock ==
    /\ InitForgeMock /\ [][ForgeMockNext]_vars
    /\ WF_vars(InitiateResolvesMock)
    /\ WF_vars(MonitorResolvesMock)

----------------------------------------------------------------------------
(* Properties of the survival matrix engine, checked under SpecEngine *)

Scored == enginePc = "done" /\ out.scored /\ row.Age # NaN
RawProduct == out.Age_Factor * out.Gender_Class_Factor

\* C1 (as stated): for every scored record the reported Phi
\* (Conceptual_Survival_Prob) equals the product A x M of its age factor and
\* its gender/class factor.
C1_PhiIsProduct ==
    Scored => out.Conceptual_Survival_Prob = RawProduct

\* C1 (amended): the reported Phi equals A x M clipped to [0, 1]: it is
\* A x M whenever A x M <= 1, and 1 when A x M exceeds 1.
C1_PhiIsClippedProduct ==
    Scored =>
        /\ RawProduct <= Scale2 => out.Conceptual_Survival_Prob = RawProduct
        /\ RawProduct > Scale2 => out.Conceptual_Survival_Prob = Scale2

C1_Witness ==
    /\ Scored
    /\ RawProduct > Scale2
    /\ out.Conceptual_Survival_Prob = Scale2

\* C2: for every record with an age >= 0, whatever its sex and class value,
\* the predicted survival probability lies in the closed interval [0, 1].
C2_ProbabilityInUnitInterval ==
    (Scored /\ row.Age >= 0) =>
        /\ out.Conceptual_Survival_Prob >= 0
        /\ out.Conceptual_Survival_Prob <= Scale2

C2_Witness ==
    /\ Scored
    /\ row.Sex = "female" /\ row.Pclass = 1 /\ row.Age = ChildAge * AgeUnit
    /\ out.Age_Factor * out.Gender_Class_Factor > Scale2
    /\ out.Conceptual_Survival_Prob <= Scale2

\* the multiplier table of the reference design
ExpectedMultiplier ==
    [s \in {"female", "male"}, c \in 1 .. 3 |->
        IF s = "female" THEN Tenth(14 - 2 * c) ELSE Tenth(8 - 2 * c)]

\* C3: the multiplier lookup is total over the six (sex, class) combinations
\* and returns 1.2, 1.0, 0.8 for female 1/2/3 and 0.6, 0.4, 0.2 for male
\* 1/2/3; none of them is left at the default value.
C3_MultiplierTable ==
    (Scored /\ row.Sex \in {"female", "male"} /\ row.Pclass \in 1 .. 3) =>
        /\ out.Gender_Class_Factor = ExpectedMultiplier[row.Sex, row.Pclass]
        /\ out.Gender_Class_Factor # BaseFactor

C3_Witness ==
    /\ Scored
    /\ row.Sex = "male" /\ row.Pclass = 3
    /\ out.Gender_Class_Factor = Tenth(2)

\* C4 (as stated): a record whose class is outside {1, 2, 3} is rejected and
\* receives no score.
C4_InvalidClassNotScored ==
    ~(enginePc = "done" /\ out.scored /\ row.Pclass \notin 1 .. 3)

\* C5: the age factor is the child constant 0.8 exactly when age < 10; for
\* age >= 10, age 10 included, it is the adult curve 1/(1+exp((age-30)/10))
\* and never the child constant.
C5_AgeFactorBranches ==
    Scored =>
        /\ (out.Age_Factor = ChildFactor) <=> (row.Age < ChildAge * AgeUnit)
        /\ row.Age >= ChildAge * AgeUnit => out.Age_Factor = Sigmoid(row.Age)

C5_Witness ==
    /\ Scored
    /\ row.Age = ChildAge * AgeUnit
    /\ out.Age_Factor = Sigmoid(row.Age)
    /\ out.Age_Factor > ChildFactor

\* C14: the outlier score of a record is the signed residual observed -
\* predicted, and a result carries the observed outcome and the outlier score
\* only when the input record supplied an observed outcome: a record of a file
\* without the Survived column has neither
C14_OutlierScoreOnlyWhenObserved ==
    enginePc = "done" =>
        /\ out.compared <=> HasColumn(csv, "Survived")
        /\ (out.compared /\ out.Conceptual_Survival_Prob # NaN) =>
               out.Residual =
                   (csv.Survived * Scale2) - out.Conceptual_Survival_Prob

\* C15: the predicted label is 1 exactly when the predicted probability is
\* strictly greater than 0.5, and 0 otherwise; a probability of exactly 0.5
\* gives label 0
C15_LabelThreshold ==
    (enginePc = "done" /\ out.compared) =>
        /\ out.Prediction \in {0, 1}
        /\ out.Prediction = 1 <=>
               /\ out.Conceptual_Survival_Prob # NaN
               /\ out.Conceptual_Survival_Prob >= (Scale2 \div 2) + 1

\* a record with the probability exactly 0.5 got the label 0
C15_Witness ==
    /\ enginePc = "done"
    /\ out.compared
    /\ out.Conceptual_Survival_Prob * 2 = Scale2
    /\ out.Prediction = 0

\* C16: when the input has too few rows or lacks the Survived column, the run
\* aborts before producing any output: nothing is computed from the data
C16_AbortsWithoutLabel ==
    (/\ inputData = "csv"
     /\ enginePc # "idle"
     /\ (dfLen < MinSamples \/ ~HasColumn(csv, "Survived"))) =>
        /\ enginePc = "aborted"
        /\ out = NoOut

\* C18: two runs of the engine on the same input dataset produce the same
\* derived values and scores; no step draws unseeded randomness
C18_RunsAgree ==
    [][RunEngineAgain =>
          Run(row', dfLen', out') = Run(row, dfLen, out)]_vars

----------------------------------------------------------------------------
(* Properties of the Flask scorer, checked under SpecBackend *)

\* C6: if the asset bundle failed to load at startup, every scoring request
\* made afterwards is answered with the 'model not ready' error and carries
\* no score.
C6_NotReadyFailsFast ==
    (backendPc = "serving" /\ assets # AssetNames
        /\ httpResponse.endpoint = "/predict") =>
        /\ httpResponse.status = "error"
        /\ httpResponse.message = "model not ready"
        /\ ~httpResponse.scored

C6_Witness ==
    /\ backendPc = "serving"
    /\ assetFiles["scaler"] = "corrupt"
    /\ httpResponse.endpoint = "/predict"
    /\ httpResponse.message = "model not ready"

\* C7: the scorer is ready only if all three asset files loaded; when one
\* of them is absent or corrupt it is not ready, holds no asset, and every
\* score was computed with all three loaded assets.
C7_ReadyOnlyWithAllAssets ==
    /\ survival_model_ready =>
          /\ \A a \in AssetNames : assetFiles[a] = "ok"
          /\ assets = AssetNames
    /\ (backendPc = "serving" /\ \E a \in AssetNames : assetFiles[a] # "ok") =>
          /\ ~survival_model_ready
          /\ assets = {}
    /\ httpResponse.scored => httpResponse.assetsUsed = AssetNames
    /\ httpResponse.endpoint = "/health" =>
          httpResponse.ready = (\A a \in AssetNames : assetFiles[a] = "ok")

C7_Witness ==
    /\ backendPc = "serving"
    /\ assetFiles["wm"] = "ok" /\ assetFiles["scaler"] = "ok"
    /\ assetFiles["logistic"] = "absent"
    /\ httpResponse.endpoint = "/health"
    /\ ~httpResponse.ready

\* C13: a record that supplies only class, sex and age (the fare, the only
\* other field the scorer reads, is missing) is scored without raising: the
\* answer is not an error and carries a non-null probability.
C13_SparseRecordScored ==
    (/\ httpResponse.endpoint = "/predict"
     /\ httpResponse.record # NoRecord
     /\ httpResponse.record.Age # Missing
     /\ httpResponse.record.Fare = Missing) =>
        /\ httpResponse.status = "ok"
        /\ httpResponse.scored
        /\ httpResponse.predicted_survival_probability # NaN
        /\ httpResponse.predicted_survival_probability \in 0 .. Scale

C13_Witness ==
    /\ httpResponse.endpoint = "/predict"
    /\ httpResponse.record =
          PassengerRecord(3, "male", AgeMidpoint * AgeUnit, Missing)
    /\ httpResponse.status = "ok"
    /\ httpResponse.predicted_survival_probability > 0

\* C17: scoring is stateless: while the process serves, whatever requests
\* are accepted and answered and in whatever interleaving, the loaded assets
\* (files read, scaler, classifier) are unchanged, and the answer for a record
\* is the score of that record under the assets as loaded, whatever was
\* served before or is being served
C17_ScoringStateless ==
    [][(backendPc = "serving" /\ backendPc' = "serving") =>
          /\ UNCHANGED <<assetFiles, assets, scalerAsset, classifierAsset,
                         survival_model_ready>>
          /\ (httpResponse' # httpResponse /\ httpResponse'.scored) =>
                 httpResponse' = ScoreRecord(httpResponse'.record,
                                             scalerAsset', classifierAsset',
                                             assets')]_vars

\* a record was scored while another request was being served
C17_Witness ==
    /\ backendPc = "serving"
    /\ httpResponse.scored
    /\ inFlight # {}
    /\ httpResponse.record \notin inFlight

\* C19: scaling never divides by zero: with a scaler whose standard deviation
\* is 0 the value is scaled as with a standard deviation of 1, so the scaled
\* value and the probability of every scored record are finite
C19_ScalingFinite ==
    (httpResponse.endpoint = "/predict" /\ httpResponse.status = "ok") =>
        /\ httpResponse.x_scaled # NaN
        /\ httpResponse.predicted_survival_probability # NaN
        /\ httpResponse.predicted_survival_probability \in 0 .. Scale
        /\ scalerAsset.std = 0 =>
               httpResponse.x_scaled = httpResponse.Phi_N - scalerAsset.mean

\* a record was scored with a scaler of standard deviation 0
C19_Witness ==
    /\ httpResponse.endpoint = "/predict"
    /\ httpResponse.status = "ok"
    /\ scalerAsset.std = 0
    /\ httpResponse.x_scaled # 0

----------------------------------------------------------------------------
(* Properties of the browser application, checked under Spec *)

\* C8: submitKagglePrediction and generateAndSubmitPredictionWithModel,
\* called while the linked flag is not set, return success = false with no
\* submissionId and no kaggleLink, and do not perform the simulated API call;
\* a simulated API call starts only from a call made with the flag set.
C8_NoSubmissionWithoutLink ==
    [][/\ (~hasKaggleCredentialsConfigured(localStorage)
            /\ (HandleSubmitReturned \/ HandleSubmitAwaits)) =>
              /\ pending' = <<>>
              /\ submissionResult' # <<>>
              /\ ~submissionResult'[1].success
              /\ submissionResult'[1].submissionId = ""
              /\ submissionResult'[1].kaggleLink = Undefined
       /\ (pending = <<>> /\ pending' # <<>>) =>
              hasKaggleCredentialsConfigured(localStorage)]_vars

C8_Witness ==
    /\ isKaggleAccountLinked
    /\ ~hasKaggleCredentialsConfigured(localStorage)
    /\ submissionResult = <<ServiceNotLinked>>
    /\ Len(submissionHistory) > 0
    /\ submissionHistory[Len(submissionHistory)].status = "failed"
    /\ pending = <<>>

\* C9 (as stated): while the backend's /health does not report
\* kaggleConfigured: true, the submission form stays disabled and no
\* submission is sent.
C9_FormDisabledUnlessBackendConfigured ==
    ~backendKaggleConfigured => (isFormDisabled /\ pending = <<>>)

\* C10: the linked flag changes only by simulateSetKaggleCredentials and
\* simulateClearKaggleCredentials: it becomes true only by a set, false only
\* by a clear, and every other operation (submission, training, reload,
\* timers) leaves hasKaggleCredentialsConfigured() as it was.
C10_FlagChangesOnlyBySetAndClear ==
    [][LET before == hasKaggleCredentialsConfigured(localStorage)
           after == hasKaggleCredentialsConfigured(localStorage')
           set == HandleSimulateLinkDone \/ OtherTabSetsCredentials
           clear == HandleSimulateUnlinkDone \/ OtherTabClearsCredentials
       IN  /\ (~before /\ after) => set
           /\ (before /\ ~after) => clear
           /\ set => after
           /\ clear => ~after]_vars

C10_Witness ==
    /\ hasKaggleCredentialsConfigured(localStorage)
    /\ Len(submissionHistory) > 0
    /\ Len(trainedModels) > 0
    /\ competitionsLoaded
    /\ submissionResult = <<>>

----------------------------------------------------------------------------
(* Properties of the Data Forge, checked under SpecForgeMock (simulated     *)
(* service) and SpecForge (service calling the backend)                    *)

TerminalStatus == {"completed", "failed"}

\* the job of run r keeps its id and moves only from no job to processing,
\* from processing to processing, completed or failed, and from a terminal
\* status nowhere
JobStep(r) ==
    LET before == forgeRuns[r].job
        after == forgeRuns'[r].job
    IN  /\ before = NoJob /\ after # NoJob => after[1].status = "processing"
        /\ before # NoJob =>
              /\ after # NoJob
              /\ after[1].id = before[1].id
              /\ before[1].status \in TerminalStatus =>
                    after[1].status = before[1].status
              /\ after[1].status \in {"processing"} \cup TerminalStatus
        /\ forgeRuns'[r].pc = "done" =>
              after # NoJob /\ after[1].status \in TerminalStatus
        /\ forgeRuns[r].pc = "done" => forgeRuns'[r].pc = "done"

\* every run started so far has ended, with its job in a terminal status
StartedRunsEnded ==
    \A r \in 1 .. Len(forgeRuns) :
        /\ forgeRuns[r].pc = "done"
        /\ forgeRuns[r].job # NoJob
        /\ forgeRuns[r].job[1].status \in TerminalStatus

\* the job on display, while it stays the same job, never leaves a terminal
\* status
DisplayStep ==
    (/\ currentJob # NoJob /\ currentJob' # NoJob
     /\ currentJob'[1].id = currentJob[1].id
     /\ currentJob[1].status \in TerminalStatus) =>
        currentJob'[1].status = currentJob[1].status

\* C11: every simulated forge job, once submitted, is in the single
\* non-terminal status processing, then moves to exactly one of completed or
\* failed (every started run ends and stays ended, with its job in one of
\* the two), and once completed or failed its status never changes again.
C11_ForgeJobLifecycle ==
    /\ [][(\A r \in 1 .. Len(forgeRuns) : JobStep(r)) /\ DisplayStep]_vars
    /\ []<>StartedRunsEnded

\* two runs overlapped; one job completed and the other failed
C11_Witness ==
    /\ Len(forgeRuns) = MaxRuns
    /\ \A r \in 1 .. MaxRuns : forgeRuns[r].pc = "done"
    /\ forgeRuns[1].job[1].status = "failed"
    /\ forgeRuns[MaxRuns].job[1].status = "completed"
    /\ currentJob # NoJob /\ currentJob[1].id = forgeRuns[1].job[1].id

\* the non-OK replies that carry a message
MessageReplies == {ErrorReply(m) : m \in BackendMessages \ {""}}

\* C12 (as stated): when the backend answers an initiate, monitor or download
\* request with a non-OK response carrying a message, the request is not
\* sent again (the run ends) and the caller receives exactly that message: it
\* is the new forgeError and the errorMessage of the failed job.
C12_BackendMessageSurfaced ==
    [][\A reply \in MessageReplies :
          /\ \A r \in 1 .. Len(forgeRuns) :
                (InitiateResponds(r, reply) \/ MonitorResponds(r, reply)) =>
                    /\ forgeRuns'[r].pc = "done"
                    /\ forgeError' = reply.message
                    /\ currentJob' # NoJob
                    /\ currentJob'[1].status = "failed"
                    /\ currentJob'[1].errorMessage = reply.message
          /\ DownloadResponds(reply) => forgeError' = reply.message]_vars

\* C20: DataForge monitors a started job until completion or failure: every
\* handleStartForge run, as its initiate and monitor calls return, ends with
\* currentJob in status completed or failed, whatever status the backend
\* returned at initiation (pending included); it is never left in pending or
\* processing.
C20_MonitoredUntilTerminal ==
    [][\A r \in 1 .. Len(forgeRuns) :
          (forgeRuns[r].pc # "done" /\ forgeRuns'[r].pc = "done") =>
              /\ currentJob' # NoJob
              /\ currentJob'[1].status \in TerminalStatus]_vars

\* the handleStartForge runs that have not ended
RunsInFlight == {r \in 1 .. Len(forgeRuns) : forgeRuns[r].pc # "done"}

\* C21: the forge job status has a single writer: at most one
\* handleStartForge run is in flight at any time; a second run cannot be
\* started between the click that starts the first and the moment the first
\* reaches completed or failed.
C21_SingleForgeRun == Cardinality(RunsInFlight) <= 1

----------------------------------------------------------------------------
(* Properties of the mount of App, checked under SpecMount *)

\* C22: trained models and submission history survive a page reload: starting
\* with localStorage holding a saved list L, once the mount effects (the load
\* effect and the save effect of each list, in the order React runs them,
\* a repeated mount included) have run to quiescence, both the in-memory
\* list and the stored list equal L.
C22_ListsSurviveReload ==
    MountQuiescent =>
        /\ getItem(storageAtLoad, LOCAL_STORAGE_MODELS_KEY).present =>
               /\ trainedModels = LoadModels(storageAtLoad)
               /\ LoadModels(localStorage) = LoadModels(storageAtLoad)
        /\ getItem(storageAtLoad, LOCAL_STORAGE_SUBMISSIONS_KEY).present =>
               /\ submissionHistory = LoadSubmissions(storageAtLoad)
               /\ LoadSubmissions(localStorage) =
                      LoadSubmissions(storageAtLoad)

----------------------------------------------------------------------------
(* Further properties of the browser application, checked under Spec *)

\* a handleSubmit run gets the response of the service it called
ServiceAnswers ==
    \/ HandleSubmitReturned
    \/ pending # <<>> /\ pending' = <<>> /\ submissionResult' # <<>>

\* C23: each handleSubmit run that calls the submission service appends
\* exactly one entry to the submission history, with status 'success' if and
\* only if the service response has success = true; a run rejected by the
\* form's own checks appends nothing, and nothing else appends.
C23_OneEntryPerServiceCall ==
    [][/\ ServiceAnswers =>
             /\ Len(submissionHistory') = Len(submissionHistory) + 1
             /\ SubSeq(submissionHistory', 1, Len(submissionHistory)) =
                    submissionHistory
             /\ submissionHistory'[Len(submissionHistory')].status
                    \in {"success", "failed"}
             /\ submissionHistory'[Len(submissionHistory')].status = "success"
                    <=> submissionResult'[1].success
       /\ ~ServiceAnswers => submissionHistory' = submissionHistory
       /\ HandleSubmitRejected =>
             /\ submissionHistory' = submissionHistory
             /\ pending' = <<>>]_vars

\* a submission succeeded and was recorded as a success
C23_Witness ==
    /\ submissionResult # <<>> /\ submissionResult[1].success
    /\ submissionHistory # <<>>
    /\ submissionHistory[Len(submissionHistory)].status = "success"
    /\ submissionHistory[Len(submissionHistory)].kaggleLink # Undefined

----------------------------------------------------------------------------
(* Properties of submitKagglePrediction, checked under SpecService *)

\* the spellings of an extension that equal .csv when case is ignored
CsvSpellings == {".csv", ".CSV", ".Csv"}

\* the message the first failing check of a file gives; NoError when the
\* file passes
ExpectedFileError(file) ==
    IF ~file.present THEN "No submission file selected."
    ELSE IF file.name.ext \notin CsvSpellings
         THEN "Submission file must be a .csv file."
    ELSE IF file.size = 0 THEN "Submission file cannot be empty."
    ELSE NoError

\* C24: with the account linked, submitKagglePrediction rejects (success =
\* false, message 'Submission file validation failed: ...', no simulated API
\* call) exactly the files that are null, whose name does not end in '.csv'
\* compared case-insensitively, or whose size is 0; the checks apply in that
\* order and the first failing one determines the message; every other file
\* proceeds to the simulated API call.
C24_FileValidation ==
    [][(CallSubmitKagglePrediction
          /\ hasKaggleCredentialsConfigured(localStorage)) =>
          IF ExpectedFileError(submissionFile) # NoError
          THEN /\ pending' = <<>>
               /\ submissionResult' =
                     <<Failure(<<"Submission file validation failed: ",
                                 ExpectedFileError(submissionFile)>>)>>
          ELSE /\ pending' # <<>>
               /\ submissionResult' = <<>>]_vars

\* an empty file that is not a .csv was rejected for its name, and no
\* simulated API call was made
C24_Witness ==
    /\ hasKaggleCredentialsConfigured(localStorage)
    /\ submissionFile.present
    /\ submissionFile.size = 0
    /\ submissionFile.name.ext \notin CsvSpellings
    /\ pending = <<>>
    /\ submissionResult =
          <<Failure(<<"Submission file validation failed: ",
                      "Submission file must be a .csv file.">>)>>

----------------------------------------------------------------------------
(* Properties of ModelTrainer, checked under SpecTrainer *)

\* C25: the trainer's competition is taken from the globally selected
\* competition only if the user has not already set one: after the user
\* picks competition X in the trainer's own selector while the global
\* selection is Y different from X, trainerCompetitionId stays X once
\* effects have settled.
C25_UserPickKept ==
    (~syncPending /\ userPick # NoId) => trainerCompetitionId = userPick

\* the backend response is OK and carries success = true
TrainingSucceeded(reply) == reply.kind = "json" /\ reply.ok /\ reply.success

\* the collection and the form inputs are as they were
TrainerUntouched ==
    /\ trainedModels' = trainedModels
    /\ localStorage' = localStorage
    /\ UNCHANGED trainerInputs

\* C26: handleTrainModel adds exactly one model to the collection when the
\* backend response is OK with success = true and adds none otherwise
\* (validation failure, competition details not loaded, network error,
\* non-OK response or success = false); in every failing case the existing
\* collection and the form inputs are unchanged, and isTraining is false
\* when the call has finished.
C26_TrainAddsOneModelOnSuccess ==
    [][/\ \A reply \in TrainReplies :
             TrainRespondsWith(reply) =>
                /\ ~isTraining'
                /\ IF TrainingSucceeded(reply)
                   THEN /\ Len(trainedModels') = Len(trainedModels) + 1
                        /\ SubSeq(trainedModels', 1, Len(trainedModels)) =
                               trainedModels
                        /\ trainedModels'[Len(trainedModels')].competitionId
                               = trainPending[1].competitionId
                        /\ LoadModels(localStorage') = trainedModels'
                   ELSE /\ TrainerUntouched
                        /\ trainingError' # <<>>
       /\ HandleTrainModelRejected =>
             /\ TrainerUntouched
             /\ trainingError' # <<>>
             /\ ~isTraining' /\ trainPending' = <<>>]_vars

\* a training failed on the backend's message while the collection held a
\* model and the form its inputs
C26_Witness ==
    /\ trainedModels # <<>>
    /\ ~isTraining /\ trainPending = <<>>
    /\ trainingError = TrainFailure("training crashed")
    /\ trim(modelName) # "" /\ trim(modelCode) # ""


\* C27 (as stated; refuted): once the oracle prompt effect has settled, the
\* prompt suggested through handleSuggestConceptualizerPrompt is handled
\* (oracleConceptualizerPrompt is null again) and the input holds what the
\* user typed after the suggestion, if the user typed anything
C27_SuggestedPromptHandled ==
    ~oracleEffectPending =>
        /\ oracleConceptualizerPrompt = NoPrompt
        /\ userTyped # <<>> => userPrompt = userTyped[1]

\* C28 (as stated; refuted): every run of handleGenerateSuggestion ends with
\* isLoading false and with a suggestion or an error, the error being the
\* message of the catch block when the call of getGeminiModelSuggestion
\* failed
C28_GenerateEndsWithSuggestionOrError ==
    [][\A outcome \in GeminiOutcomes :
          GenerateResolvesWith(outcome) =>
              /\ ~conceptIsLoading'
              /\ suggestion' # <<>> \/ conceptError' # NoError
              /\ outcome # "suggestion" => conceptError' = GenerateFailed]_vars

====
